---------------------------- MODULE Spec2Model ----------------------------
(***************************************************************************)
(* A model of scid_backtester: the incremental ETL orchestrator            *)
(* (etl_arctic.py), the record codec (parsers.py), the order book          *)
(* reconstructor (reconstruct_depth.py), the bar aggregator                *)
(* (bar_builder.py) and the stream merger (sym_it.py).                     *)
(*                                                                         *)
(* Each component has its own variables, its own initial condition and its *)
(* own next-state relation; a specification of one component keeps the     *)
(* variables of the other components at their idle values.                 *)
(***************************************************************************)
EXTENDS Integers, Sequences, FiniteSets, TLC

VARIABLES
    \* ---- etl_arctic.py ----
    loop_mode,      \* sys.argv[1]: 0 = one pass, 1 = poll forever
    contracts,      \* CONTRACTS: con_id -> the "tas" and "depth" switches
    CONFIG,         \* the in-memory CONFIG["contracts"] checkpoints
    config_json,    \* the checkpoints of ./config.json on disk
    config0,        \* config.json as it was before the run (history)
    depth_files,    \* the day-files of Data/MarketDepthData: <<con_id, date>>
    tas_len,        \* con_id -> whole records in <con_id>.scid
    depth_len,      \* <<con_id, date>> -> whole records in the day-file
    tas_job,        \* con_id -> the etl_tas_coro task of the contract
    depth_job,      \* <<con_id, date>> -> the etl_depth_coro task of the file
    task_tas,       \* the etl_tas task
    task_depth,     \* the etl_depth task: [pc, cur]
    main_pc,        \* main(): "start", "gather", "done", "crashed"
    \* ---- parsers.py ----
    p_file,         \* a data file on disk: [kind, recs, tail]
    p_ckpt,         \* the checkpoint a resumed read is given
    p_adj,          \* price_adj
    p_one,          \* what a read from checkpoint 0 returned
    p_two,          \* what a read from checkpoint p_ckpt returned
    p_pc,           \* "start", "one", "two"
    \* ---- reconstruct_depth.py ----
    df_depth,       \* the depth records read from the store, in index order
    target_ts,      \* the target timestamp of the query
    b_out,          \* what reconstruct_book_last_full_snapshot returned
    b_snaps,        \* what its find_completed_snapshots call returned (history)
    b_book,         \* its bids and asks maps when it returned (history)
    b_depth,        \* the max_depth of the query
    b_pc,           \* "feed", "queried"
    \* ---- reconstruct_depth.py: the replay loop of one snapshot ----
    u_bids,         \* the bids map of the replay
    u_asks,         \* the asks map of the replay
    u_row,          \* the row the last apply_depth_update call was given
    u_before,       \* the two maps before that call (history)
    u_pc,           \* "empty" before the first row, then "applied"
    \* ---- bar_builder.py ----
    df_ticks,       \* the ticks read from the store, in index order
    bar_cfg,        \* SESSION_START, SESSION_END, NEW_BAR_AT_SESSION_START
    bar_kind,       \* the builder called: "time", "trade", "volume"
    bar_size,       \* its freq, trades_per_bar or volume_per_bar
    bar_ids,        \* the bar id of each tick of the session (history)
    ohlcv,          \* the bars it returned, in index order
    bar_pc,         \* "feed", "built"
    \* ---- sym_it.py ----
    s_tas_file,     \* the whole records of <symbol>.scid after the header
    s_lob_file,     \* the whole records of <symbol>.<date>.depth
    s_tas_fd,       \* self.tas_fd: records of the file already read
    s_lob_fd,       \* self.lob_fd
    s_tas_recs,     \* self.tas_recs
    s_lob_recs,     \* self.lob_recs
    s_ts,           \* self.ts
    s_tas_i,        \* self.tas_i
    s_lob_i,        \* self.lob_i
    s_emitted,      \* the records __next__ returned since the last
                    \* synchronize (history)
    s_call,         \* the last call, what it returned or raised, and the
                    \* cursors before it (history)
    s_pc            \* "ready" once the object is constructed

etlVars == <<loop_mode, contracts, CONFIG, config_json, config0, depth_files,
             tas_len, depth_len, tas_job, depth_job, task_tas, task_depth,
             main_pc>>

parseVars == <<p_file, p_ckpt, p_adj, p_one, p_two, p_pc>>

bookVars == <<df_depth, target_ts, b_out, b_snaps, b_book, b_depth, b_pc>>

updVars == <<u_bids, u_asks, u_row, u_before, u_pc>>

barVars == <<df_ticks, bar_cfg, bar_kind, bar_size, bar_ids, ohlcv, bar_pc>>

symVars == <<s_tas_file, s_lob_file, s_tas_fd, s_lob_fd, s_tas_recs, s_lob_recs,
             s_ts, s_tas_i, s_lob_i, s_emitted, s_call, s_pc>>

vars == <<etlVars, parseVars, bookVars, updVars, barVars, symVars>>

-----------------------------------------------------------------------------
(***************************************************************************)
(* Bounds of the model.                                                    *)
(***************************************************************************)
\* The largest number of whole records a data file grows to.
MaxRecs == 2

\* The largest number of whole records of a file given to the parsers.
MaxParseRecs == 3

\* The largest number of depth records given to the reconstruction.
MaxDepthRecs == 3

\* The largest number of ticks given to the bar builders.
MaxTicks == 3

\* The largest number of records of a file given to the stream merger.
MaxSymRecs == 3

\* The largest number of records of a file the stream merger reads while it
\* is written to.
MaxLiveRecs == 2

\* CONTRACTS.items() yields the contracts in this (insertion) order.
Contracts == {1, 2}
\* The calendar days that have a depth file, in YYYYMMDD order.
Dates == {1, 2}

Max(S) == CHOOSE x \in S : \A y \in S : y <= x
Min(S) == CHOOSE x \in S : \A y \in S : x <= y

-----------------------------------------------------------------------------
(***************************************************************************)
(* etl_arctic.py: the checkpointed ETL.                                    *)
(*                                                                         *)
(* The program is one asyncio event loop.  A coroutine runs without        *)
(* interruption from one await to the next, so each action below is the    *)
(* code of one task between two awaits.  asyncio runs ready callbacks in   *)
(* FIFO order: a task that gather() has just created takes its first step  *)
(* before the completion of a sibling is delivered to the awaiting task.   *)
(***************************************************************************)
NoJob == [pc |-> "none", cp0 |-> 0, checkpoint |-> 0, pos |-> 0,
          written |-> {}, mode |-> 0]

\* A coroutine object handed to gather(): (con_id, checkpoint, ..., loop_mode).
NewJob(checkpoint, mode) ==
    [pc |-> "ready", cp0 |-> checkpoint, checkpoint |-> checkpoint, pos |-> 0,
     written |-> {}, mode |-> mode]

\* parse_tas / parse_depth, counted in whole records: the position the read
\* starts at.  fd.seek happens only "if checkpoint:"; a later pass passes
\* to_seek = 0 and reads on from where the previous pass stopped.
SeekPos(pos, to_seek) == IF to_seek # 0 THEN to_seek ELSE pos

\* The file records (1-based) the read loop returns from position start.
RecordsRead(start, len) == IF start >= len THEN {} ELSE (start + 1)..len

\* The file position after reading to end-of-file.
PosAfterRead(start, len) == IF start >= len THEN start ELSE len

\* The outcomes of one pass of etl_tas_coro / etl_depth_coro on a file of len
\* records: the file cannot be opened (first pass only), the read raises,
\* the store write raises (arctic_lib.write is called only for a non-empty
\* frame), or the pass succeeds.
PassOutcomes(job, len) ==
    LET start == SeekPos(job.pos, IF job.pc = "ready" THEN job.cp0 ELSE 0)
    IN  {"ok", "read_fail"}
          \cup (IF job.pc = "ready" THEN {"open_fail"} ELSE {})
          \cup (IF RecordsRead(start, len) # {} THEN {"write_fail"} ELSE {})

\* The checkpoint after a pass that parsed n records: "checkpoint += len(parsed)"
\* is reached only when write_*_arctic returned.
CheckpointAfterPass_Early(checkpoint, n, outcome) ==
    IF outcome \in {"ok", "write_fail"} THEN checkpoint + n ELSE checkpoint

CheckpointAfterPass(checkpoint, n, outcome) ==
    IF outcome = "ok" THEN checkpoint + n ELSE checkpoint

\* One pass of the while-loop of etl_tas_coro / etl_depth_coro (the first one
\* includes open() and the header read), up to the sleep or the return.
JobPass(job, len, outcome) ==
    LET start  == SeekPos(job.pos, IF job.pc = "ready" THEN job.cp0 ELSE 0)
        parsed == IF outcome \in {"ok", "write_fail"}
                    THEN RecordsRead(start, len) ELSE {}
        cp     == CheckpointAfterPass(job.checkpoint, Cardinality(parsed), outcome)
    IN  IF outcome = "ok"
          THEN [job EXCEPT !.pc = IF job.mode # 0 THEN "sleep" ELSE "done",
                           !.checkpoint = cp,
                           !.pos = PosAfterRead(start, len),
                           !.written = job.written \cup parsed]
          ELSE [job EXCEPT !.pc = "failed", !.checkpoint = cp]

Runnable(job) == job.pc \in {"ready", "sleep"}

\* ---- etl_depth: the files of one contract ----
\* "match(con_id, parts[0]) and parts[1] >= checkpoint_date", then sorted().
ToParse(c) ==
    {d \in Dates : <<c, d>> \in depth_files /\ d >= CONFIG[c].depth_date}

\* The stored offset given to every file.
DepthStartOffset_Every(c, d) == CONFIG[c].depth_rec

\* "cp = checkpoint_rec if checkpoint_date in depth_file else 0"
DepthStartOffset(c, d) ==
    IF d = CONFIG[c].depth_date THEN CONFIG[c].depth_rec ELSE 0

\* "mod = loop_mode if depth_file == to_parse[-1] else 0"
DepthMode(c, d) == IF d = Max(ToParse(c)) THEN loop_mode ELSE 0

\* The contracts etl_depth still has to visit after contract c, in order.
Later(c) == {k \in Contracts : k > c}

\* The next contract after c that etl_depth gathers jobs for: depth switched
\* on and at least one file selected; 0 when the for-loop runs out.
NextDepthContract(c) ==
    LET cand == {k \in Later(c) : contracts[k].depth /\ ToParse(k) # {}}
    IN  IF cand = {} THEN 0 ELSE Min(cand)


\* ---- the initial state: the configuration and the files before the run ----
\* The checkpoints config.json holds before the run: every contract was left
\* off at the same record count and the same day.
ConfigChoices ==
    {f \in [Contracts -> [checkpoint_tas : 0..1, depth_date : Dates,
                          depth_rec : 0..1]] :
        \A c \in Contracts : f[c] = f[1] /\ f[c].depth_rec = f[c].checkpoint_tas}

\* The switches of the contracts: every contract has a stream switched on.
SwitchChoices ==
    {f \in [Contracts -> [tas : BOOLEAN, depth : BOOLEAN]] :
        \A c \in Contracts : f[c].tas \/ f[c].depth}

EtlInit ==
    /\ loop_mode \in {0, 1}
    /\ contracts \in SwitchChoices
    /\ CONFIG \in ConfigChoices
    /\ config_json = CONFIG
    /\ config0 = CONFIG
    /\ \E ds \in SUBSET Dates : depth_files = Contracts \X ds
    /\ tas_len = [c \in Contracts |-> 1]
    /\ depth_len = [f \in Contracts \X Dates |-> 1]
    /\ tas_job = [c \in Contracts |-> NoJob]
    /\ depth_job = [f \in Contracts \X Dates |-> NoJob]
    /\ task_tas = "none"
    /\ task_depth = [pc |-> "none", cur |-> 0]
    /\ main_pc = "start"

\* ---- main() ----
\* main up to "await asyncio.gather(task_tas, task_depth)".
MainStart ==
    /\ main_pc = "start"
    /\ main_pc' = "gather"
    /\ task_tas' = "ready"
    /\ task_depth' = [pc |-> "ready", cur |-> 0]
    /\ UNCHANGED <<loop_mode, contracts, CONFIG, config_json, config0,
                   depth_files, tas_len, depth_len, tas_job, depth_job>>
    /\ UNCHANGED <<parseVars, bookVars, updVars, barVars, symVars>>

\* The jobs that exist.
TasJobs == {c \in Contracts : tas_job[c].pc # "none"}
DepthJobs == {f \in Contracts \X Dates : depth_job[f].pc # "none"}
DepthJobsOf(c) == {f \in DepthJobs : f[1] = c}

\* ---- etl_tas ----
\* etl_tas up to "await asyncio.gather(*coros)"; gather() of no coroutine is
\* already done and the coroutine runs on to its end.
TasStart ==
    /\ task_tas = "ready"
    /\ tas_job' = [c \in Contracts |->
                     IF contracts[c].tas
                       THEN NewJob(CONFIG[c].checkpoint_tas, loop_mode)
                       ELSE NoJob]
    /\ task_tas' = IF \E c \in Contracts : contracts[c].tas
                     THEN "gather" ELSE "done"
    /\ UNCHANGED <<loop_mode, contracts, CONFIG, config_json, config0,
                   depth_files, tas_len, depth_len, depth_job, task_depth,
                   main_pc>>
    /\ UNCHANGED <<parseVars, bookVars, updVars, barVars, symVars>>

\* One pass of etl_tas_coro for contract c, with the given outcome.
TasJobPass(c, outcome) ==
    /\ Runnable(tas_job[c])
    /\ main_pc = "gather"
    /\ outcome \in PassOutcomes(tas_job[c], tas_len[c])
    /\ tas_job' = [tas_job EXCEPT ![c] = JobPass(@, tas_len[c], outcome)]
    /\ UNCHANGED <<loop_mode, contracts, CONFIG, config_json, config0,
                   depth_files, tas_len, depth_len, depth_job, task_tas,
                   task_depth, main_pc>>
    /\ UNCHANGED <<parseVars, bookVars, updVars, barVars, symVars>>

\* "for con_id, new_cp in results: CONFIG[...]["checkpoint_tas"] = new_cp"
TasResults(cfg) ==
    [c \in Contracts |->
        IF c \in TasJobs
          THEN [cfg[c] EXCEPT !.checkpoint_tas = tas_job[c].checkpoint]
          ELSE cfg[c]]

\* gather() returned every result: etl_tas runs to its end.
TasGatherDone ==
    /\ task_tas = "gather"
    /\ \A c \in TasJobs : tas_job[c].pc = "done"
    /\ CONFIG' = TasResults(CONFIG)
    /\ task_tas' = "done"
    /\ UNCHANGED <<loop_mode, contracts, config_json, config0, depth_files,
                   tas_len, depth_len, tas_job, depth_job, task_depth, main_pc>>
    /\ UNCHANGED <<parseVars, bookVars, updVars, barVars, symVars>>

\* gather() raised the first exception of a job: etl_tas raises it on.
TasGatherFail ==
    /\ task_tas = "gather"
    /\ \E c \in TasJobs : tas_job[c].pc = "failed"
    /\ \A c \in TasJobs : tas_job[c].pc # "ready"
    /\ task_tas' = "failed"
    /\ UNCHANGED <<loop_mode, contracts, CONFIG, config_json, config0,
                   depth_files, tas_len, depth_len, tas_job, depth_job,
                   task_depth, main_pc>>
    /\ UNCHANGED <<parseVars, bookVars, updVars, barVars, symVars>>

\* ---- etl_depth ----
\* The for-loop of etl_depth from the contract after c: it skips the
\* contracts without depth or without a file to parse, and either creates the
\* jobs of the next contract and awaits their gather(), or runs out.
DepthLoopFrom(c) ==
    LET k == NextDepthContract(c)
    IN  IF k = 0
          THEN /\ task_depth' = [pc |-> "done", cur |-> 0]
               /\ depth_job' = depth_job
          ELSE /\ task_depth' = [pc |-> "gather", cur |-> k]
               /\ depth_job' = [f \in Contracts \X Dates |->
                                  IF f[1] = k /\ f[2] \in ToParse(k)
                                    THEN NewJob(DepthStartOffset(k, f[2]),
                                                DepthMode(k, f[2]))
                                    ELSE depth_job[f]]

\* etl_depth from its start: next(walk(...)) lists the directory, or raises
\* when the directory cannot be read.
DepthStart(walk_ok) ==
    /\ task_depth.pc = "ready"
    /\ IF walk_ok
         THEN DepthLoopFrom(0)
         ELSE /\ task_depth' = [pc |-> "failed", cur |-> 0]
              /\ depth_job' = depth_job
    /\ UNCHANGED <<loop_mode, contracts, CONFIG, config_json, config0,
                   depth_files, tas_len, depth_len, tas_job, task_tas, main_pc>>
    /\ UNCHANGED <<parseVars, bookVars, updVars, barVars, symVars>>

\* One pass of etl_depth_coro for the day-file f, with the given outcome.
DepthJobPass(f, outcome) ==
    /\ Runnable(depth_job[f])
    /\ main_pc = "gather"
    /\ outcome \in PassOutcomes(depth_job[f], depth_len[f])
    /\ depth_job' = [depth_job EXCEPT ![f] = JobPass(@, depth_len[f], outcome)]
    /\ UNCHANGED <<loop_mode, contracts, CONFIG, config_json, config0,
                   depth_files, tas_len, depth_len, tas_job, task_tas,
                   task_depth, main_pc>>
    /\ UNCHANGED <<parseVars, bookVars, updVars, barVars, symVars>>

\* "last_file, last_checkpoint = results[-1]": the job of the last file.
DepthResults(cfg, c) ==
    LET last == Max({f[2] : f \in DepthJobsOf(c)})
    IN  [cfg EXCEPT ![c].depth_date = last,
                    ![c].depth_rec = depth_job[<<c, last>>].checkpoint]

\* gather() returned the results of the current contract: the checkpoint of
\* the contract is set in CONFIG and the for-loop goes on.
DepthGatherDone ==
    /\ task_depth.pc = "gather"
    /\ \A f \in DepthJobsOf(task_depth.cur) : depth_job[f].pc = "done"
    /\ CONFIG' = DepthResults(CONFIG, task_depth.cur)
    /\ DepthLoopFrom(task_depth.cur)
    /\ UNCHANGED <<loop_mode, contracts, config_json, config0, depth_files,
                   tas_len, depth_len, tas_job, task_tas, main_pc>>
    /\ UNCHANGED <<parseVars, bookVars, updVars, barVars, symVars>>

\* gather() raised the first exception of a job: etl_depth raises it on.
DepthGatherFail ==
    /\ task_depth.pc = "gather"
    /\ \E f \in DepthJobsOf(task_depth.cur) : depth_job[f].pc = "failed"
    /\ \A f \in DepthJobsOf(task_depth.cur) : depth_job[f].pc # "ready"
    /\ task_depth' = [task_depth EXCEPT !.pc = "failed"]
    /\ UNCHANGED <<loop_mode, contracts, CONFIG, config_json, config0,
                   depth_files, tas_len, depth_len, tas_job, depth_job,
                   task_tas, main_pc>>
    /\ UNCHANGED <<parseVars, bookVars, updVars, barVars, symVars>>

\* ---- main(), after the gather ----
\* What config.json holds when asyncio.run(main()) is over: main writes
\* dumps(CONFIG) only when "await asyncio.gather(task_tas, task_depth)"
\* returned; an exception of the gather leaves main before the write.
ConfigWritten_Always(disk, mem, gathered) == mem

ConfigWritten(disk, mem, gathered) == IF gathered THEN mem ELSE disk

\* Both etl_tas and etl_depth returned: config.json is written.
MainGatherDone ==
    /\ main_pc = "gather"
    /\ task_tas = "done"
    /\ task_depth.pc = "done"
    /\ config_json' = ConfigWritten(config_json, CONFIG, TRUE)
    /\ main_pc' = "done"
    /\ UNCHANGED <<loop_mode, contracts, CONFIG, config0, depth_files, tas_len,
                   depth_len, tas_job, depth_job, task_tas, task_depth>>
    /\ UNCHANGED <<parseVars, bookVars, updVars, barVars, symVars>>

\* asyncio.run cancels every task that is still pending when main is over;
\* a polling job is cancelled at its "await asyncio.sleep(SLEEP_INT)".
Cancel(job) == IF job.pc = "sleep" THEN [job EXCEPT !.pc = "cancelled"] ELSE job

\* etl_tas or etl_depth raised: the gather of main raises, main is left by the
\* exception and asyncio.run tears the event loop down.
MainGatherFail ==
    /\ main_pc = "gather"
    /\ task_tas = "failed" \/ task_depth.pc = "failed"
    /\ task_tas # "ready" /\ task_depth.pc # "ready"
    /\ \A c \in TasJobs : tas_job[c].pc # "ready"
    /\ \A f \in DepthJobs : depth_job[f].pc # "ready"
    /\ main_pc' = "crashed"
    /\ config_json' = ConfigWritten(config_json, CONFIG, FALSE)
    /\ task_tas' = IF task_tas = "gather" THEN "cancelled" ELSE task_tas
    /\ task_depth' = IF task_depth.pc = "gather"
                       THEN [task_depth EXCEPT !.pc = "cancelled"]
                       ELSE task_depth
    /\ tas_job' = [c \in Contracts |-> Cancel(tas_job[c])]
    /\ depth_job' = [f \in Contracts \X Dates |-> Cancel(depth_job[f])]
    /\ UNCHANGED <<loop_mode, contracts, CONFIG, config0, depth_files, tas_len,
                   depth_len>>
    /\ UNCHANGED <<parseVars, bookVars, updVars, barVars, symVars>>

\* ---- the environment: the charting platform appends to the data files ----
\* Only an append to a file that a job is still to read can be observed, so
\* the files without such a job are left as they are.  The platform writes
\* the depth of a day to the file of that day: only the file of the latest
\* day is still appended to.
TasFileGrows(c) ==
    /\ main_pc = "gather"
    /\ Runnable(tas_job[c])
    /\ tas_len[c] < MaxRecs
    /\ tas_len' = [tas_len EXCEPT ![c] = @ + 1]
    /\ UNCHANGED <<loop_mode, contracts, CONFIG, config_json, config0,
                   depth_files, depth_len, tas_job, depth_job, task_tas,
                   task_depth, main_pc>>
    /\ UNCHANGED <<parseVars, bookVars, updVars, barVars, symVars>>

DepthFileGrows(f) ==
    /\ main_pc = "gather"
    /\ Runnable(depth_job[f])
    /\ f[2] = Max(Dates)
    /\ depth_len[f] < MaxRecs
    /\ depth_len' = [depth_len EXCEPT ![f] = @ + 1]
    /\ UNCHANGED <<loop_mode, contracts, CONFIG, config_json, config0,
                   depth_files, tas_len, tas_job, depth_job, task_tas,
                   task_depth, main_pc>>
    /\ UNCHANGED <<parseVars, bookVars, updVars, barVars, symVars>>

Failures == {"open_fail", "read_fail", "write_fail"}

\* The steps of the program in which no file and no store operation raises.
EtlProgress ==
    \/ MainStart
    \/ TasStart
    \/ \E c \in Contracts : TasJobPass(c, "ok")
    \/ TasGatherDone
    \/ TasGatherFail
    \/ DepthStart(TRUE)
    \/ \E f \in Contracts \X Dates : DepthJobPass(f, "ok")
    \/ DepthGatherDone
    \/ DepthGatherFail
    \/ MainGatherDone
    \/ MainGatherFail

\* The steps of the program in which the file system or the store raises.
EtlRaises ==
    \/ \E c \in Contracts, o \in Failures : TasJobPass(c, o)
    \/ \E f \in Contracts \X Dates, o \in Failures : DepthJobPass(f, o)
    \/ DepthStart(FALSE)

\* The steps of the environment.
EtlEnv ==
    \/ \E c \in Contracts : TasFileGrows(c)
    \/ \E f \in Contracts \X Dates : DepthFileGrows(f)

EtlNext == EtlProgress \/ EtlRaises \/ EtlEnv

-----------------------------------------------------------------------------
(***************************************************************************)
(* parsers.py: the record codec.                                           *)
(*                                                                         *)
(* A data file is a header followed by fixed-length records.  The model    *)
(* keeps the whole records of the file and the number of bytes of a        *)
(* record that has been written only in part (tail); a file descriptor is  *)
(* a byte position.  The files of the model have a complete header.        *)
(***************************************************************************)
\* calcsize("4cIIHHI36c"), calcsize("q4f4I"), calcsize("4I48c"),
\* calcsize("qBBHfII")
INTRADAY_HEADER_LEN == 56
INTRADAY_REC_LEN == 40
DEPTH_HEADER_LEN == 64
DEPTH_REC_LEN == 24

HeaderLen(kind) == IF kind = "tas" THEN INTRADAY_HEADER_LEN ELSE DEPTH_HEADER_LEN
RecLen(kind) == IF kind = "tas" THEN INTRADAY_REC_LEN ELSE DEPTH_REC_LEN

\* The size of the file in bytes.
FileSize(f) == HeaderLen(f.kind) + RecLen(f.kind) * Len(f.recs) + f.tail

\* fd.read(n) at byte position pos: the number of bytes returned.
ReadCount(f, pos, n) ==
    IF pos >= FileSize(f) THEN 0
    ELSE IF FileSize(f) - pos < n THEN FileSize(f) - pos ELSE n

\* What unpack_from makes of the RecLen bytes at pos: the record stored there
\* when pos is the start of a record, and bytes of two neighbours otherwise.
Garbled == [garbled |-> TRUE]

RecordAt(f, pos) ==
    LET off == pos - HeaderLen(f.kind)
    IN  IF off >= 0 /\ off % RecLen(f.kind) = 0
          THEN f.recs[(off \div RecLen(f.kind)) + 1]
          ELSE Garbled

\* "while rec_bytes := fd.read(REC_LEN): unpack_from(rec_bytes); append".
\* The loop ends when read returns b"".  unpack_from raises struct.error on
\* a buffer shorter than the record.
RECURSIVE ReadLoop(_, _, _)
ReadLoop(f, pos, acc) ==
    LET got == ReadCount(f, pos, RecLen(f.kind))
    IN  IF got = 0 THEN [recs |-> acc, raised |-> FALSE, pos |-> pos]
        ELSE IF got < RecLen(f.kind)
          THEN [recs |-> acc, raised |-> TRUE, pos |-> pos + got]
        ELSE ReadLoop(f, pos + got, Append(acc, RecordAt(f, pos)))

\* "fd.seek(HEADER_LEN + checkpoint * REC_LEN)"
SeekOffset_NoHeader(kind, checkpoint) == checkpoint * RecLen(kind)

SeekOffset(kind, checkpoint) == HeaderLen(kind) + checkpoint * RecLen(kind)

\* The position the read loop starts at: "if checkpoint: fd.seek(...)".
StartOffset(f, pos, checkpoint) ==
    IF checkpoint # 0 THEN SeekOffset(f.kind, checkpoint) ELSE pos

\* The tick made of an intraday record: price is its close, the side is 0
\* when bid_vol > 0 and 1 otherwise, the quantity is bid_vol, or ask_vol when
\* bid_vol is 0.
TickOf(ir) ==
    IF ir = Garbled THEN Garbled
    ELSE [timestamp |-> ir.timestamp,
          price     |-> ir.close,
          qty       |-> IF ir.bid_vol # 0 THEN ir.bid_vol ELSE ir.ask_vol,
          side      |-> IF ir.bid_vol > 0 THEN 0 ELSE 1]

MapSeq(Op(_), seq) == [i \in 1..Len(seq) |-> Op(seq[i])]

\* parse_tas(fd, checkpoint), fd at byte position pos.
parse_tas(f, pos, checkpoint) ==
    LET r == ReadLoop(f, StartOffset(f, pos, checkpoint), <<>>)
    IN  [r EXCEPT !.recs = MapSeq(TickOf, r.recs)]

\* parse_depth(fd, checkpoint), fd at byte position pos.
parse_depth(f, pos, checkpoint) ==
    ReadLoop(f, StartOffset(f, pos, checkpoint), <<>>)

\* transform_tas(rs, price_adj): the price times the multiplier.
transform_tas(rs, price_adj) ==
    LET Adj(r) == IF r = Garbled THEN Garbled
                  ELSE [r EXCEPT !.price = r.price * price_adj]
    IN  MapSeq(Adj, rs)

\* transform_depth(rs, price_adj): the price times the multiplier, without
\* the reserved field.
transform_depth(rs, price_adj) ==
    LET Adj(r) == IF r = Garbled THEN Garbled
                  ELSE [timestamp  |-> r.timestamp,
                        command    |-> r.command,
                        flags      |-> r.flags,
                        num_orders |-> r.num_orders,
                        price      |-> r.price * price_adj,
                        quantity   |-> r.quantity]
    IN  MapSeq(Adj, rs)

\* parse_*_header(fd) on a freshly opened file: the position after it.
AfterHeader(f) == HeaderLen(f.kind)

\* Open the file, read the header, parse from the checkpoint and transform:
\* what the caller holds afterwards, or that the read raised.
ReadFile(f, checkpoint, price_adj) ==
    LET r == IF f.kind = "tas"
               THEN parse_tas(f, AfterHeader(f), checkpoint)
               ELSE parse_depth(f, AfterHeader(f), checkpoint)
    IN  IF r.raised
          THEN [recs |-> <<>>, raised |-> TRUE]
          ELSE [recs |-> IF f.kind = "tas"
                           THEN transform_tas(r.recs, price_adj)
                           ELSE transform_depth(r.recs, price_adj),
                raised |-> FALSE]

\* ---- the files and the parameters of the model ----
IntradayRecs ==
    { [timestamp |-> 1, close |-> 10, bid_vol |-> 5, ask_vol |-> 0],
      [timestamp |-> 2, close |-> 11, bid_vol |-> 0, ask_vol |-> 3],
      [timestamp |-> 3, close |-> 10, bid_vol |-> 2, ask_vol |-> 4] }

DepthFileRecs ==
    { [timestamp |-> 1, command |-> 1, flags |-> 0, num_orders |-> 0,
       price |-> 0, quantity |-> 0, reserved |-> 0],
      [timestamp |-> 2, command |-> 2, flags |-> 1, num_orders |-> 3,
       price |-> 10, quantity |-> 7, reserved |-> 0] }

SeqsUpTo(S, n) == UNION {[1..k -> S] : k \in 0..n}

\* The bytes of a record that is written in part: none, one, all but one.
Tails(kind) == {0, 1, RecLen(kind) - 1}

DataFiles ==
    { [kind |-> "tas", recs |-> rs, tail |-> t] :
        rs \in SeqsUpTo(IntradayRecs, MaxParseRecs), t \in Tails("tas") }
    \cup
    { [kind |-> "depth", recs |-> rs, tail |-> t] :
        rs \in SeqsUpTo(DepthFileRecs, MaxParseRecs), t \in Tails("depth") }

NoRead == [recs |-> <<>>, raised |-> FALSE]

ParseInit ==
    /\ p_file \in DataFiles
    /\ p_ckpt \in 0..MaxParseRecs
    /\ p_adj \in {1, 2}
    /\ p_one = NoRead
    /\ p_two = NoRead
    /\ p_pc = "start"

\* The file is read in one pass from checkpoint 0.
ReadOnePass ==
    /\ p_pc = "start"
    /\ p_one' = ReadFile(p_file, 0, p_adj)
    /\ p_pc' = "one"
    /\ UNCHANGED <<p_file, p_ckpt, p_adj, p_two>>
    /\ UNCHANGED <<etlVars, bookVars, updVars, barVars, symVars>>

\* The file is opened afresh and read from checkpoint p_ckpt.
ReadResumed ==
    /\ p_pc = "one"
    /\ p_two' = ReadFile(p_file, p_ckpt, p_adj)
    /\ p_pc' = "two"
    /\ UNCHANGED <<p_file, p_ckpt, p_adj, p_one>>
    /\ UNCHANGED <<etlVars, bookVars, updVars, barVars, symVars>>

ParseNext == ReadOnePass \/ ReadResumed

-----------------------------------------------------------------------------
(***************************************************************************)
(* reconstruct_depth.py: the order book reconstructor.                     *)
(*                                                                         *)
(* df_depth is a sequence of rows; the index of a row is its position      *)
(* (counted from 1 here).  A side of the book is a function from its       *)
(* prices to <<quantity, num_orders>>.  Prices are integers (ticks).       *)
(***************************************************************************)
CMD_CLEAR_BOOK == 1
CMD_ADD_BID_LEVEL == 2
CMD_ADD_ASK_LEVEL == 3
CMD_MODIFY_BID_LEVEL == 4
CMD_MODIFY_ASK_LEVEL == 5
CMD_DELETE_BID_LEVEL == 6
CMD_DELETE_ASK_LEVEL == 7
FLAG_END_OF_BATCH == 1

EmptySide == [p \in {} |-> <<0, 0>>]

\* "del side[price]" that leaves the map as it is.
Without_Nothing(side, price) == side

\* "side[price] = ..." that keeps the level a price already has.
With_KeepsLevel(side, price, level) ==
    [p \in (DOMAIN side) \cup {price} |->
        IF p \in DOMAIN side THEN side[p] ELSE level]

\* "del side[price]" and "side[price] = (quantity, num_orders)"
Without(side, price) == [p \in (DOMAIN side) \ {price} |-> side[p]]
With(side, price, level) ==
    [p \in (DOMAIN side) \cup {price} |-> IF p = price THEN level ELSE side[p]]

\* apply_depth_update without the validation checks (validate = False).
apply_depth_update_NoValidate(bids, asks, row) ==
    LET cmd    == row.command
        price  == row.price
        level  == <<row.quantity, row.num_orders>>
        same   == [bids |-> bids, asks |-> asks]
    IN  IF cmd = CMD_CLEAR_BOOK
          THEN [bids |-> EmptySide, asks |-> EmptySide]
        ELSE IF cmd \in {CMD_ADD_BID_LEVEL, CMD_MODIFY_BID_LEVEL}
          THEN [bids |-> With(bids, price, level), asks |-> Without(asks, price)]
        ELSE IF cmd \in {CMD_ADD_ASK_LEVEL, CMD_MODIFY_ASK_LEVEL}
          THEN [bids |-> Without(bids, price), asks |-> With(asks, price, level)]
        ELSE IF cmd = CMD_DELETE_BID_LEVEL /\ price \in DOMAIN bids
          THEN [bids |-> Without(bids, price), asks |-> asks]
        ELSE IF cmd = CMD_DELETE_ASK_LEVEL /\ price \in DOMAIN asks
          THEN [bids |-> bids, asks |-> Without(asks, price)]
        ELSE same

\* apply_depth_update whose CLEAR_BOOK clears the bids only.
apply_depth_update_ClearBidsOnly(bids, asks, row) ==
    IF row.command = CMD_CLEAR_BOOK
      THEN [bids |-> EmptySide, asks |-> asks]
      ELSE apply_depth_update_NoValidate(bids, asks, row)

\* apply_depth_update(bids, asks, row) with validate = True: the two maps
\* after the call.
apply_depth_update(bids, asks, row) ==
    LET cmd    == row.command
        price  == row.price
        level  == <<row.quantity, row.num_orders>>
        is_bid == (cmd % 2) = 0
        same   == [bids |-> bids, asks |-> asks]
    IN  IF cmd \notin 1..7 THEN same
        ELSE IF cmd # CMD_CLEAR_BOOK
                /\ (price <= 0 \/ row.quantity < 0 \/ row.num_orders < 0)
          THEN same
        ELSE IF cmd = CMD_CLEAR_BOOK
          THEN [bids |-> EmptySide, asks |-> EmptySide]
        ELSE IF cmd \in {CMD_ADD_BID_LEVEL, CMD_MODIFY_BID_LEVEL} /\ is_bid
          THEN [bids |-> With(bids, price, level), asks |-> Without(asks, price)]
        ELSE IF cmd \in {CMD_ADD_ASK_LEVEL, CMD_MODIFY_ASK_LEVEL} /\ ~is_bid
          THEN [bids |-> Without(bids, price), asks |-> With(asks, price, level)]
        ELSE IF cmd = CMD_DELETE_BID_LEVEL /\ is_bid /\ price \in DOMAIN bids
          THEN [bids |-> Without(bids, price), asks |-> asks]
        ELSE IF cmd = CMD_DELETE_ASK_LEVEL /\ ~is_bid /\ price \in DOMAIN asks
          THEN [bids |-> bids, asks |-> Without(asks, price)]
        ELSE same

\* "(flg & FLAG_END_OF_BATCH) != 0"
EndOfBatch(row) == (row.flags % 2) = FLAG_END_OF_BATCH

\* The loop of find_completed_snapshots from row idx on; start is
\* snapshot_start_idx, 0 for None.  A snapshot is
\* <<start_idx, end_idx, start_ts, end_ts>>.
RECURSIVE SnapshotScan(_, _, _, _)
SnapshotScan(df, idx, start, snapshots) ==
    IF idx > Len(df) THEN snapshots
    ELSE LET row == df[idx]
             st  == IF row.command = CMD_CLEAR_BOOK THEN idx ELSE start
         IN  IF st # 0 /\ EndOfBatch(row)
               THEN SnapshotScan(df, idx + 1, st,
                        Append(snapshots, <<st, idx, df[st].timestamp,
                                            row.timestamp>>))
               ELSE SnapshotScan(df, idx + 1, st, snapshots)

\* find_completed_snapshots with the first row taken as an open snapshot.
find_completed_snapshots_OpenAtStart(df) ==
    SnapshotScan(df, 1, IF Len(df) > 0 THEN 1 ELSE 0, <<>>)

\* find_completed_snapshots(df_depth)
find_completed_snapshots(df) == SnapshotScan(df, 1, 0, <<>>)

\* validate_book_state with the comparison left out.
validate_book_state_Off(bids, asks) == TRUE

\* validate_book_state(bids, asks)
validate_book_state(bids, asks) ==
    IF DOMAIN bids = {} \/ DOMAIN asks = {} THEN TRUE
    ELSE ~(Max(DOMAIN bids) >= Min(DOMAIN asks))

\* The rows start_idx..end_idx replayed on two empty maps.
RECURSIVE Replay(_, _, _, _)
Replay(df, idx, end_idx, book) ==
    IF idx > end_idx THEN book
    ELSE Replay(df, idx + 1, end_idx,
                apply_depth_update(book.bids, book.asks, df[idx]))

\* The cleanup that deletes the bids at or above the midpoint.
Cleanup_DropsMoved(book) ==
    LET all_prices == (DOMAIN book.bids) \cup (DOMAIN book.asks)
        sum        == Min(all_prices) + Max(all_prices)
        up         == {p \in DOMAIN book.bids : 2 * p >= sum}
        down       == {p \in DOMAIN book.asks : 2 * p < sum}
    IN  [bids |-> [p \in ((DOMAIN book.bids) \ up) \cup down |->
                      IF p \in down THEN book.asks[p] ELSE book.bids[p]],
         asks |-> [p \in (DOMAIN book.asks) \ down |-> book.asks[p]]]

\* The cleanup of a book that failed the validation: with more than one
\* price in the book, the bids at or above the midpoint of the lowest and the
\* highest price move to the asks, then the asks below it move to the bids.
\* (price >= (lo + hi) / 2 is 2 * price >= lo + hi.)
Cleanup(book) ==
    LET all_prices == (DOMAIN book.bids) \cup (DOMAIN book.asks)
        n_prices   == Cardinality(DOMAIN book.bids) + Cardinality(DOMAIN book.asks)
        sum        == Min(all_prices) + Max(all_prices)
        up         == {p \in DOMAIN book.bids : 2 * p >= sum}
        bids1      == [p \in (DOMAIN book.bids) \ up |-> book.bids[p]]
        asks1      == [p \in (DOMAIN book.asks) \cup up |->
                          IF p \in up THEN book.bids[p] ELSE book.asks[p]]
        down       == {p \in DOMAIN asks1 : 2 * p < sum}
        bids2      == [p \in (DOMAIN bids1) \cup down |->
                          IF p \in down THEN asks1[p] ELSE bids1[p]]
        asks2      == [p \in (DOMAIN asks1) \ down |-> asks1[p]]
    IN  IF n_prices > 1 THEN [bids |-> bids2, asks |-> asks2] ELSE book

\* sorted(((p, q, n) for p, (q, n) in side.items())), highest price first
\* when reverse is set.
RECURSIVE SortedLevels(_, _)
SortedLevels(side, reverse) ==
    IF DOMAIN side = {} THEN <<>>
    ELSE LET p == IF reverse THEN Max(DOMAIN side) ELSE Min(DOMAIN side)
         IN  <<<<p, side[p][1], side[p][2]>>>>
               \o SortedLevels(Without(side, p), reverse)

\* The whole list in place of its first max_depth levels.
Top_All(levels, max_depth) == levels

\* levels[:max_depth]
Top(levels, max_depth) ==
    SubSeq(levels, 1, IF Len(levels) < max_depth THEN Len(levels) ELSE max_depth)

\* "valid_snaps = [... if ets <= target_ts]"
ValidSnaps(snapshots, target) ==
    SelectSeq(snapshots, LAMBDA sn : sn[4] <= target)

\* The first snapshot of the list in place of the one that ends last.
LastSnap_First(valid_snaps) == valid_snaps[1]

\* "max(valid_snaps, key=lambda x: x[3])": the first of those with the
\* greatest end_ts.
LastSnap(valid_snaps) ==
    LET best == Max({valid_snaps[i][4] : i \in 1..Len(valid_snaps)})
        i0   == Min({i \in 1..Len(valid_snaps) : valid_snaps[i][4] = best})
    IN  valid_snaps[i0]

NoSnapshot == [found |-> FALSE, ts |-> 0, bids |-> <<>>, asks |-> <<>>]
NoBook == [bids |-> EmptySide, asks |-> EmptySide, cleaned |-> FALSE,
           raw |-> [bids |-> EmptySide, asks |-> EmptySide]]

\* reconstruct_book_last_full_snapshot(df_depth, target_ts, max_depth): the
\* tuple returned (found is "snapshot_ts is not None") and the two maps as
\* they are when the function returns; raw is the two maps as the replay
\* left them, before the cleanup.
Reconstruct(df, target, max_depth) ==
    LET snapshots   == find_completed_snapshots(df)
        valid_snaps == ValidSnaps(snapshots, target)
    IN  IF Len(snapshots) = 0 \/ Len(valid_snaps) = 0
          THEN [out |-> NoSnapshot, book |-> NoBook]
          ELSE
            LET sn       == LastSnap(valid_snaps)
                replayed == Replay(df, sn[1], sn[2],
                                   [bids |-> EmptySide, asks |-> EmptySide])
                bad      == ~validate_book_state(replayed.bids, replayed.asks)
                book     == IF bad THEN Cleanup(replayed) ELSE replayed
                bids_list == SortedLevels(book.bids, TRUE)
                asks_list == SortedLevels(book.asks, FALSE)
                kept     == [bids |-> book.bids, asks |-> book.asks,
                             cleaned |-> bad, raw |-> replayed]
            IN  IF validate_book_state(book.bids, book.asks)
                  THEN [out  |-> [found |-> TRUE, ts |-> sn[4],
                                  bids |-> Top(bids_list, max_depth),
                                  asks |-> Top(asks_list, max_depth)],
                        book |-> kept]
                  ELSE [out |-> NoSnapshot, book |-> kept]

\* ---- the depth rows and the queries of the model ----
\* The store holds the rows in ascending timestamp order (the ETL sorts what
\* it writes): a row has the timestamp of the row before it, or the next one.
LastTs(df) == IF Len(df) = 0 THEN 1 ELSE df[Len(df)].timestamp

BookPrices == {1, 2}

\* The rows that may come next: a clear, or a bid or an ask level added at a
\* price, with or without the end-of-batch flag.  The quantity of a level is
\* the index of its row.
NextRows(df) ==
    { [timestamp |-> LastTs(df) + dt, command |-> CMD_CLEAR_BOOK, flags |-> fl,
       num_orders |-> 0, price |-> 0, quantity |-> 0] :
         dt \in {0, 1}, fl \in {0, 1} }
    \cup
    { [timestamp |-> LastTs(df) + dt, command |-> cmd, flags |-> fl,
       num_orders |-> 1, price |-> pr, quantity |-> Len(df) + 1] :
         dt \in {0, 1}, fl \in {0, 1},
         cmd \in {CMD_ADD_BID_LEVEL, CMD_ADD_ASK_LEVEL}, pr \in BookPrices }

\* max_depth: the default, and the top of the book.
MAX_DEPTH_DEFAULT == 10
MaxDepths == {1, MAX_DEPTH_DEFAULT}

\* ---- a ladder of bids ----
\* Prices of the ladder are in hundredths: 100.00, 100.25, 100.50.
DepthRow(ts, cmd, fl, pr, qty) ==
    [timestamp |-> ts, command |-> cmd, flags |-> fl, num_orders |-> 1,
     price |-> pr, quantity |-> qty]

ThreeBids ==
    << DepthRow(1, CMD_ADD_BID_LEVEL, 0, 10000, 10),
       DepthRow(1, CMD_ADD_BID_LEVEL, 0, 10025, 5),
       DepthRow(1, CMD_ADD_BID_LEVEL, 0, 10050, 2) >>

\* The record that ends the batch: one with no command, or an ask level.
BatchEnds ==
    { DepthRow(2, 0, FLAG_END_OF_BATCH, 0, 0),
      DepthRow(2, CMD_ADD_ASK_LEVEL, FLAG_END_OF_BATCH, 10075, 1) }

\* The ladder as the first rows of the data, and after a CLEAR_BOOK row.
BareLadders == { ThreeBids \o <<e>> : e \in BatchEnds }
ClearedLadders ==
    { <<DepthRow(1, CMD_CLEAR_BOOK, 0, 0, 0)>> \o l : l \in BareLadders }

\* ---- books with bids among the asks ----
\* A CLEAR_BOOK row, then a level at each of four prices, each a bid or an
\* ask, both sides present; the last row ends the batch.  The sum of the
\* lowest and the highest price is twice the third price.
CrossedPrices == <<10000, 10025, 10050, 10100>>
CrossedBooks ==
    { <<DepthRow(1, CMD_CLEAR_BOOK, 0, 0, 0)>>
        \o [i \in 1..Len(CrossedPrices) |->
              DepthRow(1, side[i],
                       IF i = Len(CrossedPrices) THEN FLAG_END_OF_BATCH ELSE 0,
                       CrossedPrices[i], i)] :
        side \in { f \in [1..Len(CrossedPrices) ->
                            {CMD_ADD_BID_LEVEL, CMD_ADD_ASK_LEVEL}] :
                      \E i, j \in DOMAIN f : f[i] # f[j] } }

BookInit ==
    /\ df_depth \in {<<>>} \cup BareLadders \cup ClearedLadders \cup CrossedBooks
    /\ target_ts = 0
    /\ b_out = NoSnapshot
    /\ b_snaps = <<>>
    /\ b_book = NoBook
    /\ b_depth = MAX_DEPTH_DEFAULT
    /\ b_pc = "feed"

\* The values of max_depth a query is made with: the default, and on a
\* ladder of bids the top of the book as well.
QueryDepths(df) ==
    IF df \in BareLadders \cup ClearedLadders
      THEN MaxDepths ELSE {MAX_DEPTH_DEFAULT}

\* A row is added to the depth data.
AppendRow ==
    /\ b_pc = "feed"
    /\ Len(df_depth) < MaxDepthRecs
    /\ \E row \in NextRows(df_depth) : df_depth' = Append(df_depth, row)
    /\ UNCHANGED <<target_ts, b_out, b_snaps, b_book, b_depth, b_pc>>
    /\ UNCHANGED <<etlVars, parseVars, updVars, barVars, symVars>>

\* reconstruct_book_last_full_snapshot(df_depth, target, max_depth)
Query ==
    /\ b_pc = "feed"
    /\ \E target \in 0..(MaxDepthRecs + 1), max_depth \in QueryDepths(df_depth) :
         LET r == Reconstruct(df_depth, target, max_depth)
         IN  /\ target_ts' = target
             /\ b_out' = r.out
             /\ b_book' = r.book
             /\ b_depth' = max_depth
    /\ b_snaps' = find_completed_snapshots(df_depth)
    /\ b_pc' = "queried"
    /\ UNCHANGED df_depth
    /\ UNCHANGED <<etlVars, parseVars, updVars, barVars, symVars>>

BookNext == AppendRow \/ Query

\* find_completed_snapshots(df_depth), called on its own.
Scan ==
    /\ b_pc = "feed"
    /\ b_snaps' = find_completed_snapshots(df_depth)
    /\ b_pc' = "scanned"
    /\ UNCHANGED <<df_depth, target_ts, b_out, b_book, b_depth>>
    /\ UNCHANGED <<etlVars, parseVars, updVars, barVars, symVars>>

ScanNext == AppendRow \/ Scan

\* ---- the replay loop, one row at a time ----
\* "for _, row in df_snap.iterrows(): apply_depth_update(bids, asks, row)"
\* on rows of any content: every command number from 0 to 8, prices that are
\* negative, zero or positive, negative and positive quantities and order
\* counts.
UpdPrices == {-1, 0, 1, 2}
UpdQuantities == {-1, 1, 2}
UpdOrders == {-1, 1}
UpdRows ==
    { [timestamp |-> 1, command |-> cmd, flags |-> 0, num_orders |-> n,
       price |-> pr, quantity |-> q] :
         cmd \in 0..8, pr \in UpdPrices, q \in UpdQuantities, n \in UpdOrders }

NoRow == [timestamp |-> 0, command |-> 0, flags |-> 0, num_orders |-> 0,
          price |-> 0, quantity |-> 0]
NoMaps == [bids |-> EmptySide, asks |-> EmptySide]

\* "bids = {}; asks = {}" before the loop.
UpdInit ==
    /\ u_bids = EmptySide
    /\ u_asks = EmptySide
    /\ u_row = NoRow
    /\ u_before = NoMaps
    /\ u_pc = "empty"

\* One iteration of the loop: apply_depth_update(bids, asks, row) returns
\* (it catches what the conversions of the row raise) and the loop goes on.
ApplyRow ==
    /\ u_pc \in {"empty", "applied"}
    /\ \E row \in UpdRows :
         LET r == apply_depth_update(u_bids, u_asks, row)
         IN  /\ u_bids' = r.bids
             /\ u_asks' = r.asks
             /\ u_row' = row
    /\ u_before' = [bids |-> u_bids, asks |-> u_asks]
    /\ u_pc' = "applied"
    /\ UNCHANGED <<etlVars, parseVars, bookVars, barVars, symVars>>

UpdNext == ApplyRow

-----------------------------------------------------------------------------
(***************************************************************************)
(* bar_builder.py: the bar aggregator.                                     *)
(*                                                                         *)
(* df_ticks is a sequence of rows [datetime, price, qty]; the ticks are of *)
(* one day and datetime is the time of day of the tick, in the unit of the *)
(* time-bar frequency.  A table of bars is a sequence of rows in index     *)
(* order; key is the index of the row (the left edge of the window of a    *)
(* time bar, the bar id of a trade or volume bar).                         *)
(***************************************************************************)
\* filter_session_hours(df)
filter_session_hours(df, cfg) ==
    SelectSeq(df, LAMBDA r : /\ r.datetime >= cfg.SESSION_START
                             /\ r.datetime <= cfg.SESSION_END)

\* df.sort_index(): the rows in ascending datetime order, rows of one
\* datetime in the order they had.
RECURSIVE sort_index(_)
sort_index(df) ==
    IF Len(df) = 0 THEN <<>>
    ELSE LET t0   == Min({df[i].datetime : i \in 1..Len(df)})
             i0   == Min({i \in 1..Len(df) : df[i].datetime = t0})
             rest == [i \in 1..(Len(df) - 1) |->
                         IF i < i0 THEN df[i] ELSE df[i + 1]]
         IN  <<df[i0]>> \o sort_index(rest)

\* df['qty'].cumsum() at row i
RECURSIVE CumulativeVolume(_, _)
CumulativeVolume(df, i) ==
    IF i = 0 THEN 0 ELSE CumulativeVolume(df, i - 1) + df[i].qty

\* np.cumsum(session_starts) at row i
SessionStartsUpTo(df, i, cfg) ==
    Cardinality({k \in 1..i : df[k].datetime = cfg.SESSION_START})

\* The sum, the greatest and the least of the values of a sequence.
RECURSIVE SumSeq(_)
SumSeq(values) ==
    IF Len(values) = 0 THEN 0 ELSE Head(values) + SumSeq(Tail(values))
SeqMax(values) == Max({values[i] : i \in 1..Len(values)})
SeqMin(values) == Min({values[i] : i \in 1..Len(values)})

\* NaN: what 'first', 'max', 'min' and 'last' give for a group with no row.
\* No price of the model has this value.
NaN == 0 - 1

\* The aggregation of the rows of one group.
AggregateOhlcv(key, rows) ==
    LET prices == [i \in 1..Len(rows) |-> rows[i].price]
        qtys   == [i \in 1..Len(rows) |-> rows[i].qty]
    IN  [key    |-> key,
         open   |-> IF Len(rows) = 0 THEN NaN ELSE rows[1].price,
         high   |-> IF Len(rows) = 0 THEN NaN ELSE SeqMax(prices),
         low    |-> IF Len(rows) = 0 THEN NaN ELSE SeqMin(prices),
         close  |-> IF Len(rows) = 0 THEN NaN ELSE rows[Len(rows)].price,
         volume |-> SumSeq(qtys),
         bar_time_first |-> IF Len(rows) = 0 THEN NaN ELSE rows[1].datetime,
         bar_time_last  |-> IF Len(rows) = 0 THEN NaN
                            ELSE rows[Len(rows)].datetime]

\* The rows of df whose group key is k, in the order of df.
RECURSIVE RowsOfGroup(_, _, _, _)
RowsOfGroup(df, ids, k, i) ==
    IF i > Len(df) THEN <<>>
    ELSE (IF ids[i] = k THEN <<df[i]>> ELSE <<>>)
           \o RowsOfGroup(df, ids, k, i + 1)

\* df.groupby(bar_ids) and the aggregation: one row per key of keys, in
\* ascending key order.
RECURSIVE GroupBy(_, _, _)
GroupBy(df, ids, keys) ==
    IF keys = {} THEN <<>>
    ELSE LET k == Min(keys)
         IN  <<AggregateOhlcv(k, RowsOfGroup(df, ids, k, 1))>>
               \o GroupBy(df, ids, keys \ {k})

\* ---- build_time_bars ----
\* The offset of pd.Grouper: the time of day of SESSION_START when
\* NEW_BAR_AT_SESSION_START is set.
GrouperOffset(cfg) ==
    IF cfg.NEW_BAR_AT_SESSION_START THEN cfg.SESSION_START ELSE 0

\* The left edge of the window of pd.Grouper(freq, offset) that holds t.
WindowOf(t, freq, cfg) ==
    ((t - GrouperOffset(cfg)) \div freq) * freq + GrouperOffset(cfg)

\* grouped.agg(...): pd.Grouper has one group for every window from the
\* window of the first row to the window of the last, with or without rows.
TimeGroups(df, freq, cfg) ==
    LET ids == [i \in 1..Len(df) |-> WindowOf(df[i].datetime, freq, cfg)]
        used == {ids[i] : i \in 1..Len(df)}
        keys == IF used = {} THEN {}
                ELSE {w \in Min(used)..Max(used) :
                        WindowOf(w, freq, cfg) = w}
    IN  GroupBy(df, ids, keys)

\* build_time_bars without "ohlcv.dropna(subset=['open'])".
build_time_bars_NoDropna(df, freq, cfg) ==
    TimeGroups(filter_session_hours(df, cfg), freq, cfg)

\* build_time_bars(df, freq)
build_time_bars(df, freq, cfg) ==
    SelectSeq(TimeGroups(filter_session_hours(df, cfg), freq, cfg),
              LAMBDA bar : bar.open # NaN)

\* ---- build_volume_bars ----
\* bar_ids of build_volume_bars
VolumeBarIds(df, volume_per_bar, cfg) ==
    [i \in 1..Len(df) |->
        (CumulativeVolume(df, i) \div volume_per_bar)
        + (IF cfg.NEW_BAR_AT_SESSION_START
             THEN SessionStartsUpTo(df, i, cfg) ELSE 0)]

\* build_volume_bars(df, volume_per_bar)
build_volume_bars(df, volume_per_bar, cfg) ==
    LET d   == sort_index(filter_session_hours(df, cfg))
        ids == VolumeBarIds(d, volume_per_bar, cfg)
    IN  GroupBy(d, ids, {ids[i] : i \in 1..Len(d)})

\* ---- build_trade_bars ----
\* The bar ids without the count of the session starts.
TradeBarIds_NoAnchor(df, trades_per_bar, cfg) ==
    [i \in 1..Len(df) |-> (i - 1) \div trades_per_bar]

\* "base_bar_ids = np.arange(n_trades) // trades_per_bar" and, with
\* NEW_BAR_AT_SESSION_START, "+ np.cumsum(session_starts)"; row i of the
\* model is row i - 1 of the frame.
TradeBarIds(df, trades_per_bar, cfg) ==
    [i \in 1..Len(df) |->
        ((i - 1) \div trades_per_bar)
        + (IF cfg.NEW_BAR_AT_SESSION_START
             THEN SessionStartsUpTo(df, i, cfg) ELSE 0)]

\* build_trade_bars(df, trades_per_bar)
build_trade_bars(df, trades_per_bar, cfg) ==
    LET d   == sort_index(filter_session_hours(df, cfg))
        ids == TradeBarIds(d, trades_per_bar, cfg)
    IN  GroupBy(d, ids, {ids[i] : i \in 1..Len(d)})

\* ---- the ticks and the calls of the model ----
\* The price and the quantity of a tick.
TickInputs == { [price |-> p, qty |-> q] : p \in {1, 2}, q \in {30, 50} }

\* The store holds the ticks in ascending timestamp order: a tick has the
\* time of the tick before it, or one of the next two; the first tick of the
\* day is before, at or after the start of the session.
NextTickTimes(df) ==
    IF Len(df) = 0 THEN {0, 1, 2}
    ELSE {df[Len(df)].datetime + dt : dt \in {0, 1, 2}}

\* Four ticks inside the session and after its start, with the quantities
\* 50, 30, 25, 40.
Tick(t, p, q) == [datetime |-> t, price |-> p, qty |-> q]
FourTicks ==
    { << Tick(2, 1, 50), Tick(t2, 2, 30), Tick(t3, 1, 25), Tick(3, 2, 40) >> :
        t2 \in {2}, t3 \in {2, 3} }

\* The session of the model: it starts after the first time of day and ends
\* before the last a tick can have.
BarConfigs ==
    { [SESSION_START |-> 1, SESSION_END |-> 3, NEW_BAR_AT_SESSION_START |-> a] :
        a \in BOOLEAN }

Freqs == {1, 2}
VolumesPerBar == {25, 60}
TradesPerBar == {1, 2}

BarInit ==
    /\ df_ticks \in {<<>>} \cup FourTicks
    /\ bar_cfg \in BarConfigs
    /\ bar_kind = "none"
    /\ bar_size = 0
    /\ bar_ids = <<>>
    /\ ohlcv = <<>>
    /\ bar_pc = "feed"

\* A tick is added to the tick data.
AppendTick ==
    /\ bar_pc = "feed"
    /\ Len(df_ticks) < MaxTicks
    /\ \E t \in NextTickTimes(df_ticks), x \in TickInputs :
          df_ticks' = Append(df_ticks, Tick(t, x.price, x.qty))
    /\ UNCHANGED <<bar_cfg, bar_kind, bar_size, bar_ids, ohlcv, bar_pc>>
    /\ UNCHANGED <<etlVars, parseVars, bookVars, updVars, symVars>>

\* build_time_bars(df_ticks, freq)
BuildTimeBars ==
    /\ bar_pc = "feed"
    /\ \E freq \in Freqs :
          /\ bar_size' = freq
          /\ ohlcv' = build_time_bars(df_ticks, freq, bar_cfg)
    /\ bar_ids' = <<>>
    /\ bar_kind' = "time"
    /\ bar_pc' = "built"
    /\ UNCHANGED <<df_ticks, bar_cfg>>
    /\ UNCHANGED <<etlVars, parseVars, bookVars, updVars, symVars>>

\* build_volume_bars(df_ticks, volume_per_bar)
BuildVolumeBars ==
    /\ bar_pc = "feed"
    /\ \E volume_per_bar \in VolumesPerBar :
          /\ bar_size' = volume_per_bar
          /\ ohlcv' = build_volume_bars(df_ticks, volume_per_bar, bar_cfg)
          /\ bar_ids' = VolumeBarIds(sort_index(filter_session_hours(
                                         df_ticks, bar_cfg)),
                                     volume_per_bar, bar_cfg)
    /\ bar_kind' = "volume"
    /\ bar_pc' = "built"
    /\ UNCHANGED <<df_ticks, bar_cfg>>
    /\ UNCHANGED <<etlVars, parseVars, bookVars, updVars, symVars>>

\* build_trade_bars(df_ticks, trades_per_bar)
BuildTradeBars ==
    /\ bar_pc = "feed"
    /\ \E trades_per_bar \in TradesPerBar :
          /\ bar_size' = trades_per_bar
          /\ ohlcv' = build_trade_bars(df_ticks, trades_per_bar, bar_cfg)
          /\ bar_ids' = TradeBarIds(sort_index(filter_session_hours(
                                        df_ticks, bar_cfg)),
                                    trades_per_bar, bar_cfg)
    /\ bar_kind' = "trade"
    /\ bar_pc' = "built"
    /\ UNCHANGED <<df_ticks, bar_cfg>>
    /\ UNCHANGED <<etlVars, parseVars, bookVars, updVars, symVars>>

BarNext == AppendTick \/ BuildTimeBars \/ BuildVolumeBars \/ BuildTradeBars

-----------------------------------------------------------------------------
(***************************************************************************)
(* sym_it.py: the stream merger.                                           *)
(*                                                                         *)
(* A record is [kind, timestamp, id]; id is the place of the record in its *)
(* file.  The two files hold whole records in ascending timestamp order;   *)
(* a file descriptor is the number of records already read.  The state of  *)
(* a SymIt object is a record of its fields; raised is the exception the   *)
(* last method left with ("none" when it returned).                        *)
(***************************************************************************)
\* The timestamps of the records.
SymTimes == {1, 2, 3}

\* The files whose records have the timestamps tss.
FileOf(kind, tss) ==
    [i \in 1..Len(tss) |-> [kind |-> kind, timestamp |-> tss[i], id |-> i]]

\* The ascending sequences of at most n timestamps of a set.
AscendingIn(times, n) ==
    UNION { { tss \in [1..k -> times] :
                \A i \in 1..(k - 1) : tss[i] <= tss[i + 1] } : k \in 0..n }

\* The ascending sequences of at most n timestamps.
Ascending(n) == AscendingIn(SymTimes, n)

\* bisect_left in its place: the number of records with a timestamp below ts.
bisect_left(recs, ts) ==
    Cardinality({i \in 1..Len(recs) : recs[i].timestamp < ts})

\* bisect_right(recs, ts, key=timestamp) on an ascending list: the number of
\* records with a timestamp of at most ts.
bisect_right(recs, ts) ==
    Cardinality({i \in 1..Len(recs) : recs[i].timestamp <= ts})

\* A read that starts at the first record whatever the position is.
ReadRest_FromStart(file, fd) == file

\* parse_tas(fd, 0) and parse_depth(fd, 0): the records from the position of
\* the descriptor to the end of the file.
ReadRest(file, fd) == SubSeq(file, fd + 1, Len(file))

\* SymIt.synchronize(update)
synchronize(self, update) ==
    LET tas_recs == IF update
                      THEN self.tas_recs \o ReadRest(self.tas_file, self.tas_fd)
                      ELSE self.tas_recs
        lob_recs == IF update
                      THEN self.lob_recs \o ReadRest(self.lob_file, self.lob_fd)
                      ELSE self.lob_recs
        read     == [self EXCEPT
                       !.tas_recs = tas_recs,
                       !.lob_recs = lob_recs,
                       !.tas_fd = IF update THEN Len(self.tas_file) ELSE @,
                       !.lob_fd = IF update THEN Len(self.lob_file) ELSE @]
        lob_i    == bisect_right(lob_recs, self.ts)
    IN  IF lob_i >= Len(lob_recs) /\ Len(lob_recs) = 0
          THEN \* self.lob_recs[-1] of an empty list
               [read EXCEPT !.lob_i = lob_i, !.raised = "IndexError"]
          ELSE LET ts == IF lob_i < Len(lob_recs)
                           THEN lob_recs[lob_i + 1].timestamp
                           ELSE lob_recs[Len(lob_recs)].timestamp
               IN  [read EXCEPT !.lob_i = lob_i,
                                !.ts = ts,
                                !.tas_i = bisect_right(tas_recs, ts),
                                !.raised = "none"]

\* SymIt.set_ts(ts, update)
set_ts(self, ts, update) == synchronize([self EXCEPT !.ts = ts], update)

\* SymIt.__iter__()
iter(self) == synchronize(self, TRUE)

\* SymIt.__next__() with the comparison of the two timestamps turned round.
next_LaterFirst(self) ==
    IF self.lob_i < Len(self.lob_recs)
      THEN IF \/ self.tas_i >= Len(self.tas_recs)
              \/ self.lob_recs[self.lob_i + 1].timestamp
                   > self.tas_recs[self.tas_i + 1].timestamp
             THEN LET res == self.lob_recs[self.lob_i + 1]
                  IN  [self EXCEPT !.ts = res.timestamp, !.lob_i = @ + 1,
                                   !.res = <<res>>, !.raised = "none"]
             ELSE LET res == self.tas_recs[self.tas_i + 1]
                  IN  [self EXCEPT !.ts = res.timestamp, !.tas_i = @ + 1,
                                   !.res = <<res>>, !.raised = "none"]
      ELSE [self EXCEPT !.res = <<>>, !.raised = "StopIteration"]

\* SymIt.__next__(): res is the record returned.
next(self) ==
    IF self.lob_i < Len(self.lob_recs)
      THEN IF \/ self.tas_i >= Len(self.tas_recs)
              \/ self.lob_recs[self.lob_i + 1].timestamp
                   < self.tas_recs[self.tas_i + 1].timestamp
             THEN LET res == self.lob_recs[self.lob_i + 1]
                  IN  [self EXCEPT !.ts = res.timestamp, !.lob_i = @ + 1,
                                   !.res = <<res>>, !.raised = "none"]
             ELSE LET res == self.tas_recs[self.tas_i + 1]
                  IN  [self EXCEPT !.ts = res.timestamp, !.tas_i = @ + 1,
                                   !.res = <<res>>, !.raised = "none"]
      ELSE [self EXCEPT !.res = <<>>, !.raised = "StopIteration"]

\* "for r in self: res.append(r)" after __iter__ returned: __next__ until
\* it raises StopIteration, which ends the loop.
RECURSIVE Drain(_, _)
Drain(self, res) ==
    LET after == next(self)
    IN  IF after.raised = "StopIteration"
          THEN [after EXCEPT !.res = res, !.raised = "none"]
          ELSE Drain(after, res \o after.res)

\* SymIt.all(): res is the list returned.
all(self) ==
    LET old_ts == self.ts
        update == Len(self.lob_recs) = 0 /\ Len(self.tas_recs) = 0
        reset  == set_ts(self, 0, update)
        begun  == iter(reset)
        done   == Drain(begun, <<>>)
        back   == set_ts(done, old_ts, FALSE)
    IN  IF reset.raised # "none" THEN [reset EXCEPT !.res = <<>>]
        ELSE IF begun.raised # "none" THEN [begun EXCEPT !.res = <<>>]
        ELSE IF back.raised # "none" THEN [back EXCEPT !.res = <<>>]
        ELSE back

\* ---- the object of the model ----
\* The fields of the object.
Self ==
    [tas_file |-> s_tas_file, lob_file |-> s_lob_file,
     tas_fd |-> s_tas_fd, lob_fd |-> s_lob_fd,
     tas_recs |-> s_tas_recs, lob_recs |-> s_lob_recs,
     ts |-> s_ts, tas_i |-> s_tas_i, lob_i |-> s_lob_i,
     res |-> <<>>, raised |-> "none"]

\* The fields after a call, and what the call was: its name, its timestamp
\* argument (0 when it has none), what it returned or raised, the clock and
\* the cursors before it, the number of records it read from the two files,
\* and the name and the exception of the call before it.
Called(op, arg, after) ==
    /\ s_tas_fd' = after.tas_fd
    /\ s_lob_fd' = after.lob_fd
    /\ s_tas_recs' = after.tas_recs
    /\ s_lob_recs' = after.lob_recs
    /\ s_ts' = after.ts
    /\ s_tas_i' = after.tas_i
    /\ s_lob_i' = after.lob_i
    /\ s_call' = [op |-> op, arg |-> arg, res |-> after.res,
                  raised |-> after.raised,
                  ts |-> s_ts, tas_i |-> s_tas_i, lob_i |-> s_lob_i,
                  read |-> <<after.tas_fd - s_tas_fd, after.lob_fd - s_lob_fd>>,
                  prev |-> <<s_call.op, s_call.raised>>]
    /\ UNCHANGED <<s_tas_file, s_lob_file, s_pc>>

\* SymIt(symbol, date): the two files are opened and their headers read.
SymInit ==
    /\ s_tas_file \in {FileOf("tas", tss) : tss \in Ascending(MaxSymRecs)}
    /\ s_lob_file \in {FileOf("lob", tss) : tss \in Ascending(MaxSymRecs)}
    /\ s_tas_fd = 0
    /\ s_lob_fd = 0
    /\ s_tas_recs = <<>>
    /\ s_lob_recs = <<>>
    /\ s_ts = 0
    /\ s_tas_i = 0
    /\ s_lob_i = 0
    /\ s_emitted = <<>>
    /\ s_call = [op |-> "none", raised |-> "none"]
    /\ s_pc = "ready"

\* iter(it)
CallIter ==
    /\ s_pc = "ready"
    /\ Called("iter", 0, iter(Self))
    /\ s_emitted' = <<>>
    /\ UNCHANGED <<etlVars, parseVars, bookVars, updVars, barVars>>

\* next(it)
CallNext ==
    /\ s_pc = "ready"
    /\ Called("next", 0, next(Self))
    /\ s_emitted' = s_emitted \o next(Self).res
    /\ UNCHANGED <<etlVars, parseVars, bookVars, updVars, barVars>>

\* it.set_ts(ts, update)
CallSetTs ==
    /\ s_pc = "ready"
    /\ \E ts \in {0} \cup SymTimes, update \in BOOLEAN :
          Called("set_ts", ts, set_ts(Self, ts, update))
    /\ s_emitted' = <<>>
    /\ UNCHANGED <<etlVars, parseVars, bookVars, updVars, barVars>>

\* it.all()
CallAll ==
    /\ s_pc = "ready"
    /\ Called("all", 0, all(Self))
    /\ s_emitted' = <<>>
    /\ UNCHANGED <<etlVars, parseVars, bookVars, updVars, barVars>>

\* ---- the environment: the charting platform appends to the two files ----
\* A whole record is appended, with a timestamp not below that of the last
\* record.  An append before the first call is a longer file at the start.
LiveTimes == {1, 2}
NextSymTimes(file) ==
    {t \in LiveTimes : Len(file) = 0 \/ t >= file[Len(file)].timestamp}

\* SymIt(symbol, date) on two files that are still written to.
SymLiveInit ==
    /\ s_tas_file \in {FileOf("tas", tss) : tss \in AscendingIn(LiveTimes, MaxLiveRecs)}
    /\ s_lob_file \in {FileOf("lob", tss) : tss \in AscendingIn(LiveTimes, MaxLiveRecs)}
    /\ s_tas_fd = 0
    /\ s_lob_fd = 0
    /\ s_tas_recs = <<>>
    /\ s_lob_recs = <<>>
    /\ s_ts = 0
    /\ s_tas_i = 0
    /\ s_lob_i = 0
    /\ s_emitted = <<>>
    /\ s_call = [op |-> "none", raised |-> "none"]
    /\ s_pc = "ready"

TasGrows ==
    /\ s_pc = "ready"
    /\ s_call.op # "none"
    /\ Len(s_tas_file) < MaxLiveRecs
    /\ \E t \in NextSymTimes(s_tas_file) :
          s_tas_file' = Append(s_tas_file,
                               [kind |-> "tas", timestamp |-> t,
                                id |-> Len(s_tas_file) + 1])
    /\ UNCHANGED <<s_lob_file, s_tas_fd, s_lob_fd, s_tas_recs, s_lob_recs, s_ts,
                   s_tas_i, s_lob_i, s_emitted, s_call, s_pc>>
    /\ UNCHANGED <<etlVars, parseVars, bookVars, updVars, barVars>>

LobGrows ==
    /\ s_pc = "ready"
    /\ s_call.op # "none"
    /\ Len(s_lob_file) < MaxLiveRecs
    /\ \E t \in NextSymTimes(s_lob_file) :
          s_lob_file' = Append(s_lob_file,
                               [kind |-> "lob", timestamp |-> t,
                                id |-> Len(s_lob_file) + 1])
    /\ UNCHANGED <<s_tas_file, s_tas_fd, s_lob_fd, s_tas_recs, s_lob_recs, s_ts,
                   s_tas_i, s_lob_i, s_emitted, s_call, s_pc>>
    /\ UNCHANGED <<etlVars, parseVars, bookVars, updVars, barVars>>

SymNext == CallIter \/ CallNext \/ CallSetTs \/ CallAll

SymLiveNext ==
    CallIter \/ CallNext \/ CallSetTs \/ CallAll \/ TasGrows \/ LobGrows

-----------------------------------------------------------------------------
(***************************************************************************)
(* The specifications: one per component, the other components idle.       *)
(***************************************************************************)
EtlIdle ==
    /\ loop_mode = 0
    /\ contracts = [c \in Contracts |-> [tas |-> FALSE, depth |-> FALSE]]
    /\ CONFIG = [c \in Contracts |->
                   [checkpoint_tas |-> 0, depth_date |-> 1, depth_rec |-> 0]]
    /\ config_json = CONFIG
    /\ config0 = CONFIG
    /\ depth_files = {}
    /\ tas_len = [c \in Contracts |-> 0]
    /\ depth_len = [f \in Contracts \X Dates |-> 0]
    /\ tas_job = [c \in Contracts |-> NoJob]
    /\ depth_job = [f \in Contracts \X Dates |-> NoJob]
    /\ task_tas = "none"
    /\ task_depth = [pc |-> "none", cur |-> 0]
    /\ main_pc = "idle"

ParseIdle ==
    /\ p_file = [kind |-> "tas", recs |-> <<>>, tail |-> 0]
    /\ p_ckpt = 0
    /\ p_adj = 1
    /\ p_one = NoRead
    /\ p_two = NoRead
    /\ p_pc = "idle"

BookIdle ==
    /\ df_depth = <<>>
    /\ target_ts = 0
    /\ b_out = NoSnapshot
    /\ b_snaps = <<>>
    /\ b_book = NoBook
    /\ b_depth = MAX_DEPTH_DEFAULT
    /\ b_pc = "idle"

UpdIdle ==
    /\ u_bids = EmptySide
    /\ u_asks = EmptySide
    /\ u_row = NoRow
    /\ u_before = NoMaps
    /\ u_pc = "idle"

BarIdle ==
    /\ df_ticks = <<>>
    /\ bar_cfg = [SESSION_START |-> 0, SESSION_END |-> 0,
                  NEW_BAR_AT_SESSION_START |-> TRUE]
    /\ bar_kind = "none"
    /\ bar_size = 0
    /\ bar_ids = <<>>
    /\ ohlcv = <<>>
    /\ bar_pc = "idle"

SymIdle ==
    /\ s_tas_file = <<>>
    /\ s_lob_file = <<>>
    /\ s_tas_fd = 0
    /\ s_lob_fd = 0
    /\ s_tas_recs = <<>>
    /\ s_lob_recs = <<>>
    /\ s_ts = 0
    /\ s_tas_i = 0
    /\ s_lob_i = 0
    /\ s_emitted = <<>>
    /\ s_call = [op |-> "none", raised |-> "none"]
    /\ s_pc = "idle"

\* The ETL run.
InitEtl == EtlInit /\ ParseIdle /\ BookIdle /\ UpdIdle /\ BarIdle /\ SymIdle

SpecEtl == InitEtl /\ [][EtlNext]_vars

\* The event loop runs every callback that is ready: a step of the program
\* that stays possible is taken.  Nothing obliges a file to grow or an
\* operation to raise.
FairSpecEtl == InitEtl /\ [][EtlNext]_vars /\ WF_vars(EtlProgress)

\* The parsers on a file.
InitParse == ParseInit /\ EtlIdle /\ BookIdle /\ UpdIdle /\ BarIdle /\ SymIdle

SpecParse == InitParse /\ [][ParseNext]_vars

\* The reconstruction of the book from depth data.
InitBook == BookInit /\ EtlIdle /\ ParseIdle /\ UpdIdle /\ BarIdle /\ SymIdle

SpecBook == InitBook /\ [][BookNext]_vars

\* The scan for the completed snapshots of depth data.
SpecScan == InitBook /\ [][ScanNext]_vars

\* The replay of rows of any content.
InitUpd == UpdInit /\ EtlIdle /\ ParseIdle /\ BookIdle /\ BarIdle /\ SymIdle

SpecUpd == InitUpd /\ [][UpdNext]_vars

\* The bar builders on tick data.
InitBars == BarInit /\ EtlIdle /\ ParseIdle /\ BookIdle /\ UpdIdle /\ SymIdle

SpecBars == InitBars /\ [][BarNext]_vars

\* The stream merger on two files.
InitSym == SymInit /\ EtlIdle /\ ParseIdle /\ BookIdle /\ UpdIdle /\ BarIdle

SpecSym == InitSym /\ [][SymNext]_vars

\* The stream merger on two files that grow.
InitSymLive ==
    SymLiveInit /\ EtlIdle /\ ParseIdle /\ BookIdle /\ UpdIdle /\ BarIdle

SpecSymLive == InitSymLive /\ [][SymLiveNext]_vars

-----------------------------------------------------------------------------
(***************************************************************************)
(* The claims about the ETL.                                               *)
(***************************************************************************)
AllJobs == {tas_job[c] : c \in TasJobs} \cup {depth_job[f] : f \in DepthJobs}

AnyFailure ==
    \/ \E j \in AllJobs : j.pc = "failed"
    \/ task_tas = "failed"
    \/ task_depth.pc = "failed"

\* C1: config.json is written only after every tick job and every depth job
\* of the run has returned, and when a job (or the directory listing) has
\* raised, config.json holds what it held before the run.
C1_BatchCommitAllOrNothing ==
    /\ config_json # config0 =>
          /\ main_pc = "done"
          /\ task_tas = "done" /\ task_depth.pc = "done"
          /\ \A c \in Contracts : contracts[c].tas => tas_job[c].pc = "done"
          /\ \A j \in AllJobs : j.pc = "done"
    /\ AnyFailure => config_json = config0

\* C1, its case: a job raised after checkpoints had been advanced in memory,
\* main was left by the exception and config.json is as before the run.
C1_Witness ==
    /\ main_pc = "crashed"
    /\ \E j \in AllJobs : j.pc = "failed"
    /\ CONFIG # config0
    /\ config_json = config0

\* C2: in every state of a tick or depth job, over any number of passes, the
\* checkpoint of the job is its initial checkpoint plus the number of records
\* it has written to the store, and the records written are exactly those
\* between the two: the checkpoint never passes a record that is not stored.
C2_CheckpointCountsStored ==
    \A j \in AllJobs :
        /\ j.checkpoint = j.cp0 + Cardinality(j.written)
        /\ j.written = (j.cp0 + 1)..j.checkpoint

\* C2, its case: a polling job that has stored records in an earlier pass
\* fails in a later pass with unread records left in its file.
C2_Witness ==
    \E c \in TasJobs :
        /\ tas_job[c].pc = "failed"
        /\ tas_job[c].written # {}
        /\ tas_job[c].checkpoint < tas_len[c]

\* C5 (as claimed): in continuous mode, once a tick job has advanced its
\* checkpoint past the one in config.json, config.json eventually holds the
\* advanced checkpoint (unless something fails).
C5_Claim ==
    \A c \in Contracts :
        (loop_mode = 1 /\ tas_job[c].checkpoint > config_json[c].checkpoint_tas)
          ~> (AnyFailure \/ config_json[c].checkpoint_tas >= tas_job[c].checkpoint)

\* C6 (as claimed): in continuous mode a pass that raises neither ends the
\* polling job it belongs to, nor the process, nor the polling of another job.
C6_Claim ==
    loop_mode = 1 =>
        /\ main_pc # "crashed"
        /\ \A j \in AllJobs : j.mode = 1 => j.pc \notin {"failed", "cancelled"}

\* The day-files etl_depth selects for contract c from the checkpoint of
\* config.json as it was before the run.
C7_Selected(c) ==
    {d \in Dates : <<c, d>> \in depth_files /\ d >= config0[c].depth_date}

\* C7 (as claimed): in one-shot and in continuous mode, every contract with
\* depth switched on and a day-file to parse eventually has a depth job that
\* has made its first pass (unless something fails).
C7_Claim ==
    <>(\/ AnyFailure
       \/ \A c \in Contracts :
             (contracts[c].depth /\ C7_Selected(c) # {}) =>
                 \E f \in DepthJobsOf(c) : depth_job[f].pc \in {"sleep", "done"})

\* C8 (as claimed): when a job of the batch has failed, no sibling job that
\* is in flight is cancelled.
C8_Claim ==
    (\E j \in AllJobs : j.pc = "failed") => \A j \in AllJobs : j.pc # "cancelled"

\* The days of the files etl_depth selects for a contract, from the
\* checkpoint config.json held before the run.
C24_Selected(c) ==
    {d \in Dates : <<c, d>> \in depth_files /\ d >= config0[c].depth_date}

\* etl_depth has taken the results of the jobs of contract c.
C24_Visited(c) ==
    /\ DepthJobsOf(c) # {}
    /\ \A f \in DepthJobsOf(c) : depth_job[f].pc = "done"
    /\ task_depth.cur # c

\* C24: the jobs of a contract are those of its selected files; the stored
\* record offset is the start offset only of the file of the checkpoint date
\* and 0 for every later file; after the pass the checkpoint of the contract
\* is the date of the last file and the number of records of that file
\* consumed so far; it is never below the checkpoint before the run in
\* (date, offset) order.
C24_DepthCheckpointBookkeeping ==
    \A c \in Contracts :
        /\ DepthJobsOf(c) # {} =>
              {f[2] : f \in DepthJobsOf(c)} = C24_Selected(c)
        /\ \A f \in DepthJobsOf(c) :
              depth_job[f].cp0 = IF f[2] = config0[c].depth_date
                                   THEN config0[c].depth_rec ELSE 0
        /\ C24_Visited(c) =>
              LET last == Max(C24_Selected(c))
                  job  == depth_job[<<c, last>>]
              IN  /\ CONFIG[c].depth_date = last
                  /\ CONFIG[c].depth_rec = job.cp0 + Cardinality(job.written)
                  /\ job.written = (job.cp0 + 1)..CONFIG[c].depth_rec
        /\ \/ CONFIG[c].depth_date > config0[c].depth_date
           \/ /\ CONFIG[c].depth_date = config0[c].depth_date
              /\ CONFIG[c].depth_rec >= config0[c].depth_rec

\* C24, its case: a contract with a stored offset, a file of the checkpoint
\* date and a later file; the pass is over and the checkpoint is at the
\* later file with the records read from its start.
C24_Witness ==
    \E c \in Contracts :
        /\ C24_Visited(c)
        /\ config0[c].depth_rec > 0
        /\ config0[c].depth_date \in C24_Selected(c)
        /\ CONFIG[c].depth_date > config0[c].depth_date
        /\ CONFIG[c].depth_rec > 0
        /\ depth_job[<<c, config0[c].depth_date>>].written = {}

-----------------------------------------------------------------------------
(***************************************************************************)
(* The claims about the record codec.                                      *)
(***************************************************************************)
\* C3: for a tick file of whole records and a checkpoint N of at most its
\* record count, the first N ticks of a read from checkpoint 0 followed by
\* the ticks of a read of the freshly opened file from checkpoint N, both
\* price-adjusted with the same multiplier, are the ticks of the one read
\* from checkpoint 0, in the same order, and neither read raises.
C3_CheckpointIdempotence ==
    (/\ p_pc = "two"
     /\ p_file.kind = "tas"
     /\ p_file.tail = 0
     /\ p_ckpt <= Len(p_file.recs))
    => /\ ~p_one.raised
       /\ ~p_two.raised
       /\ Len(p_one.recs) = Len(p_file.recs)
       /\ SubSeq(p_one.recs, 1, p_ckpt) \o p_two.recs = p_one.recs

\* C3, its case: a tick file of whole records read in one pass and in two,
\* resumed from a checkpoint inside the file, with a multiplier other than 1.
C3_Witness ==
    /\ p_pc = "two"
    /\ p_file.kind = "tas"
    /\ p_file.tail = 0
    /\ 0 < p_ckpt /\ p_ckpt < Len(p_file.recs)
    /\ p_adj = 2
    /\ p_two.recs # <<>>

\* C4 (as claimed): a read of a tick or depth file that ends with a part of
\* a record returns every whole record before it and does not raise.
C4_Claim ==
    (p_pc \in {"one", "two"} /\ p_file.tail > 0)
    => /\ ~p_one.raised
       /\ Len(p_one.recs) = Len(p_file.recs)

-----------------------------------------------------------------------------
(***************************************************************************)
(* The claims about the order book reconstructor.                          *)
(***************************************************************************)
\* C9: whenever reconstruct_book_last_full_snapshot returns a snapshot
\* timestamp, every bid price of the book it returns from is below every ask
\* price of it, in the two maps and in the two lists returned.
C9_ReturnedBookNotCrossed ==
    (b_pc = "queried" /\ b_out.found)
    => /\ \A pb \in DOMAIN b_book.bids, pa \in DOMAIN b_book.asks : pb < pa
       /\ \A i \in 1..Len(b_out.bids), j \in 1..Len(b_out.asks) :
             b_out.bids[i][1] < b_out.asks[j][1]

\* C9, its case: a query at the end timestamp of a completed snapshot whose
\* replayed book was crossed and went through the cleanup, with levels on
\* both sides in the book returned.
C9_Witness ==
    /\ b_pc = "queried"
    /\ b_out.found
    /\ b_out.ts = target_ts
    /\ b_book.cleaned
    /\ b_out.bids # <<>> /\ b_out.asks # <<>>

ClearRows(df) == {i \in 1..Len(df) : df[i].command = CMD_CLEAR_BOOK}

\* C10: a query with a target timestamp below the timestamp of the first
\* CLEAR_BOOK row returns "no valid snapshot": (None, [], []).
C10_NoSnapshotBeforeFirstClear ==
    (/\ b_pc = "queried"
     /\ ClearRows(df_depth) # {}
     /\ target_ts < df_depth[Min(ClearRows(df_depth))].timestamp)
    => b_out = NoSnapshot

\* C10, its case: the data holds a completed snapshot and, before its first
\* CLEAR_BOOK, an end-of-batch row at or before the target timestamp.
C10_Witness ==
    /\ b_pc = "queried"
    /\ ClearRows(df_depth) # {}
    /\ target_ts < df_depth[Min(ClearRows(df_depth))].timestamp
    /\ \E i \in 1..Len(df_depth) :
          /\ EndOfBatch(df_depth[i])
          /\ df_depth[i].timestamp <= target_ts
    /\ \E i \in ClearRows(df_depth), j \in 1..Len(df_depth) :
          i <= j /\ EndOfBatch(df_depth[j])

\* The end timestamps of the completed snapshots of the data: a row with the
\* end-of-batch flag at or after a CLEAR_BOOK row.
CompletedEnds(df) ==
    { df[j].timestamp : j \in { k \in 1..Len(df) :
          EndOfBatch(df[k]) /\ \E i \in ClearRows(df) : i <= k } }

\* C11: a query that succeeds returns the end timestamp T of a completed
\* snapshot with T <= target_ts and no completed snapshot ends in
\* (T, target_ts]; with no completed snapshot ending at or before target_ts
\* the query returns "no valid snapshot".
C11_LastSnapshotAtOrBeforeTarget ==
    b_pc = "queried" =>
        /\ b_out.found =>
              /\ b_out.ts \in CompletedEnds(df_depth)
              /\ b_out.ts <= target_ts
              /\ \A e \in CompletedEnds(df_depth) :
                    ~(b_out.ts < e /\ e <= target_ts)
        /\ (\A e \in CompletedEnds(df_depth) : e > target_ts)
              => b_out = NoSnapshot

\* C11, its case: a successful query with two completed snapshots of
\* different end timestamps at or before the target, and one after it.
C11_Witness ==
    /\ b_pc = "queried"
    /\ b_out.found
    /\ \E e1, e2 \in CompletedEnds(df_depth) :
          e1 < e2 /\ e2 <= target_ts

\* What the claim says of a query on a ladder: one completed snapshot, and
\* the one bid level (100.50, 2, num_orders) returned.
LadderTopBid ==
    /\ Len(find_completed_snapshots(df_depth)) = 1
    /\ b_out.found
    /\ b_out.ts = df_depth[Len(df_depth)].timestamp
    /\ b_out.bids = << <<10050, 2, 1>> >>

\* A query with max_depth = 1 at or after the timestamp of the last row.
LadderQueried ==
    /\ b_pc = "queried"
    /\ b_depth = 1
    /\ target_ts >= df_depth[Len(df_depth)].timestamp

\* C12 (as claimed): the three bids at 100.00, 100.25, 100.50 with
\* quantities 10, 5, 2 followed by an end-of-batch record, as the whole of
\* the data, are one completed snapshot, and a query at or after its end with
\* max_depth = 1 returns the one bid level (100.50, 2, num_orders).
C12_Claim ==
    (df_depth \in BareLadders /\ LadderQueried) => LadderTopBid

\* C12 (amended): the same when a CLEAR_BOOK record opens the snapshot
\* before the three bids.
C12_LadderAfterClearBook ==
    (df_depth \in ClearedLadders /\ LadderQueried) => LadderTopBid

\* C12, its case: the ladder after a CLEAR_BOOK, queried after its end with
\* max_depth = 1.
C12_Witness ==
    /\ df_depth \in ClearedLadders
    /\ LadderQueried
    /\ target_ts > df_depth[Len(df_depth)].timestamp

\* C23: every tuple <<start_idx, end_idx, start_ts, end_ts>> of
\* find_completed_snapshots has a CLEAR_BOOK row at start_idx, a row with the
\* END_OF_BATCH flag at end_idx, start_idx <= end_idx and no CLEAR_BOOK row
\* in (start_idx, end_idx]; the list is in ascending end_idx order, and
\* every END_OF_BATCH row at or after a CLEAR_BOOK row gives one tuple.
C23_CompletedSnapshots ==
    b_pc \in {"scanned", "queried"} =>
        /\ \A k \in 1..Len(b_snaps) :
              /\ b_snaps[k][1] \in 1..Len(df_depth)
              /\ b_snaps[k][2] \in 1..Len(df_depth)
              /\ df_depth[b_snaps[k][1]].command = CMD_CLEAR_BOOK
              /\ df_depth[b_snaps[k][2]].flags % 2 = 1
              /\ b_snaps[k][1] <= b_snaps[k][2]
              /\ \A i \in (b_snaps[k][1] + 1)..b_snaps[k][2] :
                    df_depth[i].command # CMD_CLEAR_BOOK
              /\ b_snaps[k][3] = df_depth[b_snaps[k][1]].timestamp
              /\ b_snaps[k][4] = df_depth[b_snaps[k][2]].timestamp
        /\ \A k \in 1..(Len(b_snaps) - 1) : b_snaps[k][2] < b_snaps[k + 1][2]
        /\ {b_snaps[k][2] : k \in 1..Len(b_snaps)}
             = {j \in 1..Len(df_depth) :
                  /\ df_depth[j].flags % 2 = 1
                  /\ \E i \in ClearRows(df_depth) : i <= j}

\* C23, its case: an end-of-batch row before the first CLEAR_BOOK, and two
\* completed snapshots that start at the same CLEAR_BOOK row.
C23_Witness ==
    /\ b_pc = "scanned"
    /\ \E j \in 1..Len(df_depth) :
          /\ EndOfBatch(df_depth[j])
          /\ \A i \in ClearRows(df_depth) : j < i
    /\ \E k \in 1..(Len(b_snaps) - 1) : b_snaps[k][1] = b_snaps[k + 1][1]

\* The levels of a book: <<price, quantity, num_orders>> of both sides.
Levels(book) ==
    {<<p, book.bids[p][1], book.bids[p][2]>> : p \in DOMAIN book.bids}
      \cup {<<p, book.asks[p][1], book.asks[p][2]>> : p \in DOMAIN book.asks}

\* Twice the midpoint of the lowest and the highest price of a book.
TwiceMid(book) ==
    Min((DOMAIN book.bids) \cup (DOMAIN book.asks))
      + Max((DOMAIN book.bids) \cup (DOMAIN book.asks))

\* C28: whenever the replayed book fails validate_book_state, after the
\* repair every bid price is below the midpoint and every ask price at or
\* above it, the levels of the two sides together are those of the replayed
\* book, and the second validation passes; a query returns "no valid
\* snapshot" only when no completed snapshot ends at or before target_ts.
C28_RepairSucceeds ==
    b_pc = "queried" =>
        /\ b_book.cleaned =>
              /\ \A p \in DOMAIN b_book.bids : 2 * p < TwiceMid(b_book.raw)
              /\ \A p \in DOMAIN b_book.asks : 2 * p >= TwiceMid(b_book.raw)
              /\ Levels(b_book) = Levels(b_book.raw)
              /\ (DOMAIN b_book.bids) \cap (DOMAIN b_book.asks) = {}
              /\ validate_book_state(b_book.bids, b_book.asks)
              /\ b_out.found
        /\ ~b_out.found =>
              \A e \in CompletedEnds(df_depth) : e > target_ts

\* C28, its case: a crossed book of four levels whose repair moves a bid at
\* the midpoint itself to the asks and an ask below it to the bids.
C28_Witness ==
    /\ b_pc = "queried"
    /\ b_book.cleaned
    /\ Cardinality(Levels(b_book.raw)) = 4
    /\ \E p \in DOMAIN b_book.raw.bids :
          2 * p = TwiceMid(b_book.raw) /\ p \in DOMAIN b_book.asks
    /\ \E p \in DOMAIN b_book.raw.asks : p \in DOMAIN b_book.bids

\* C29: for every completed snapshot, the rows start_idx..end_idx replayed
\* on two empty maps leave the maps that the rows from the first one to
\* end_idx leave.
C29_RangeReplayIsFullReplay ==
    b_pc \in {"scanned", "queried"} =>
        \A k \in 1..Len(b_snaps) :
            Replay(df_depth, b_snaps[k][1], b_snaps[k][2], NoMaps)
              = Replay(df_depth, 1, b_snaps[k][2], NoMaps)

\* C29, its case: a completed snapshot that starts after a row which added a
\* level, and whose book holds a level but not that one.
C29_Witness ==
    /\ b_pc = "scanned"
    /\ df_depth # <<>>
    /\ df_depth[1].command = CMD_ADD_ASK_LEVEL
    /\ \E k \in 1..Len(b_snaps) :
          LET bk == Replay(df_depth, b_snaps[k][1], b_snaps[k][2], NoMaps)
          IN  /\ b_snaps[k][1] > 1
              /\ df_depth[1].price \notin DOMAIN bk.asks
              /\ DOMAIN bk.bids # {}

\* The row passes the validation checks of apply_depth_update.
UpdValid(row) ==
    /\ row.command \in 1..7
    /\ row.command = CMD_CLEAR_BOOK
         \/ (row.price > 0 /\ row.quantity >= 0 /\ row.num_orders >= 0)

\* The side the parity of the command selects, and the other one.
Selected(maps, row) == IF row.command % 2 = 0 THEN maps.bids ELSE maps.asks
Opposite(maps, row) == IF row.command % 2 = 0 THEN maps.asks ELSE maps.bids
UpdAfter == [bids |-> u_bids, asks |-> u_asks]

\* The level of a price on a side, <<>> when the side has none.
LevelAt(side, p) == IF p \in DOMAIN side THEN side[p] ELSE <<>>

\* C21: after a valid ADD or MODIFY the level (quantity, num_orders) is
\* stored at the price on the side the parity of the command selects (even =
\* bid, odd = ask) and the price is absent from the opposite side; after a
\* valid DELETE the price is absent from the selected side, and if it was
\* not there both sides are unchanged; every other level is unchanged.
C21_ApplySemantics ==
    (u_pc = "applied" /\ UpdValid(u_row) /\ u_row.command # CMD_CLEAR_BOOK) =>
        LET p == u_row.price
        IN  /\ u_row.command \in CMD_ADD_BID_LEVEL..CMD_MODIFY_ASK_LEVEL =>
                  /\ LevelAt(Selected(UpdAfter, u_row), p)
                        = <<u_row.quantity, u_row.num_orders>>
                  /\ p \notin DOMAIN Opposite(UpdAfter, u_row)
            /\ u_row.command \in {CMD_DELETE_BID_LEVEL, CMD_DELETE_ASK_LEVEL} =>
                  /\ p \notin DOMAIN Selected(UpdAfter, u_row)
                  /\ Opposite(UpdAfter, u_row) = Opposite(u_before, u_row)
                  /\ p \notin DOMAIN Selected(u_before, u_row)
                        => UpdAfter = u_before
            /\ \A q \in (UpdPrices \ {p}) :
                  /\ LevelAt(u_bids, q) = LevelAt(u_before.bids, q)
                  /\ LevelAt(u_asks, q) = LevelAt(u_before.asks, q)

\* C21, its case: a valid MODIFY of an ask level at a price the bids held,
\* with a level at another price in the book.
C21_Witness ==
    /\ u_pc = "applied"
    /\ UpdValid(u_row)
    /\ u_row.command = CMD_MODIFY_ASK_LEVEL
    /\ u_row.price \in DOMAIN u_before.bids
    /\ u_before.bids[u_row.price] # <<u_row.quantity, u_row.num_orders>>
    /\ \E q \in DOMAIN u_asks : q # u_row.price

\* C22: a row whose command is outside 1..7, or whose command is not
\* CLEAR_BOOK and whose price is <= 0 or whose quantity or order count is
\* negative, is skipped: both maps are as they were before the call.
C22_InvalidRowSkipped ==
    (u_pc = "applied" /\ ~UpdValid(u_row)) => UpdAfter = u_before

\* C22, its case: a DELETE of a bid level that the book holds, with a
\* negative quantity, applied to a book with both sides.
C22_Witness ==
    /\ u_pc = "applied"
    /\ u_row.command = CMD_DELETE_BID_LEVEL
    /\ u_row.quantity < 0
    /\ u_row.price \in DOMAIN u_before.bids
    /\ DOMAIN u_before.asks # {}

\* C27: starting from two empty maps, after any sequence of
\* apply_depth_update calls no price is a key of both maps.
C27_NoPriceOnBothSides == (DOMAIN u_bids) \cap (DOMAIN u_asks) = {}

\* C27, its case: a bid level added at a price the asks held, the asks
\* holding another price.
C27_Witness ==
    /\ u_pc = "applied"
    /\ u_row.command = CMD_ADD_BID_LEVEL
    /\ u_row.price \in DOMAIN u_before.asks
    /\ u_row.price \in DOMAIN u_bids
    /\ DOMAIN u_asks # {}

-----------------------------------------------------------------------------
(***************************************************************************)
(* The claims about the bar aggregator.                                    *)
(***************************************************************************)
\* The ticks of df_ticks inside the session, in their order.
InSession ==
    SelectSeq(df_ticks, LAMBDA r : /\ bar_cfg.SESSION_START <= r.datetime
                                   /\ r.datetime <= bar_cfg.SESSION_END)

\* Session anchoring is disabled, or no tick of the session is exactly at
\* its start.
NoSessionStartBreak ==
    \/ ~bar_cfg.NEW_BAR_AT_SESSION_START
    \/ \A k \in 1..Len(InSession) :
          InSession[k].datetime # bar_cfg.SESSION_START

\* C13 (as claimed): with session anchoring disabled or no tick exactly at
\* the session start, every bar build_volume_bars returns, except possibly
\* the last, has a volume of at least volume_per_bar.
C13_Claim ==
    (bar_pc = "built" /\ bar_kind = "volume" /\ NoSessionStartBreak)
    => \A i \in 1..(Len(ohlcv) - 1) : ohlcv[i].volume >= bar_size

\* C14 (as claimed): four ticks inside the session, none at its start, with
\* the quantities 50, 30, 25, 40 and volume_per_bar = 60 give two bars: the
\* first of the ticks 50 and 30 with volume 80, the second of the ticks 25
\* and 40 with volume 65.
C14_Claim ==
    (/\ bar_pc = "built" /\ bar_kind = "volume" /\ bar_size = 60
     /\ df_ticks \in FourTicks
     /\ NoSessionStartBreak)
    => /\ Len(ohlcv) = 2
       /\ ohlcv[1].volume = 80 /\ ohlcv[2].volume = 65
       /\ ohlcv[1].bar_time_last = df_ticks[2].datetime
       /\ ohlcv[2].bar_time_first = df_ticks[3].datetime

\* The ticks of the session in the window that starts at w.
TicksOfWindow(w) ==
    SelectSeq(InSession, LAMBDA r : w <= r.datetime /\ r.datetime < w + bar_size)

\* The sum of the quantities of a sequence of ticks.
RECURSIVE TotalQty(_)
TotalQty(ticks) ==
    IF Len(ticks) = 0 THEN 0 ELSE ticks[1].qty + TotalQty(Tail(ticks))

\* C15: build_time_bars returns one bar for each window that holds a tick of
\* the session and none for a window without ticks; the bar of a window has
\* a non-null open that is the price of the first tick of the window, the
\* close is that of the last, the high and the low are the greatest and the
\* least price of the window and the volume is the sum of its quantities.
C15_OneBarPerNonEmptyWindow ==
    (bar_pc = "built" /\ bar_kind = "time") =>
        /\ \A k \in 1..Len(InSession) :
              Cardinality({i \in 1..Len(ohlcv) :
                             /\ ohlcv[i].key <= InSession[k].datetime
                             /\ InSession[k].datetime < ohlcv[i].key + bar_size})
                = 1
        /\ \A i \in 1..Len(ohlcv) :
              LET ticks == TicksOfWindow(ohlcv[i].key)
              IN  /\ Len(ticks) > 0
                  /\ \A j \in 1..(i - 1) : ohlcv[j].key + bar_size <= ohlcv[i].key
                  /\ ohlcv[i].open # NaN
                  /\ ohlcv[i].open = ticks[1].price
                  /\ ohlcv[i].close = ticks[Len(ticks)].price
                  /\ \A k \in 1..Len(ticks) :
                        /\ ticks[k].price <= ohlcv[i].high
                        /\ ticks[k].price >= ohlcv[i].low
                  /\ \E k \in 1..Len(ticks) : ticks[k].price = ohlcv[i].high
                  /\ \E k \in 1..Len(ticks) : ticks[k].price = ohlcv[i].low
                  /\ ohlcv[i].volume = TotalQty(ticks)

\* C15, its case: time bars with a window without ticks between two bars,
\* and a bar of two ticks whose open is not its close.
C15_Witness ==
    /\ bar_pc = "built" /\ bar_kind = "time"
    /\ \E i \in 1..(Len(ohlcv) - 1) :
          ohlcv[i].key + bar_size < ohlcv[i + 1].key
    /\ \E i \in 1..Len(ohlcv) : ohlcv[i].open # ohlcv[i].close

\* The ticks of the session in timestamp order.
SessionTicks == sort_index(filter_session_hours(df_ticks, bar_cfg))

\* The rows of the tick table a bar id was given to.
TicksOfBar(id) == {i \in 1..Len(bar_ids) : bar_ids[i] = id}

\* C25: with anchoring enabled the trade-bar id of the i-th tick of the
\* session (from zero) is floor(i / trades_per_bar) plus the number of ticks
\* up to it whose time of day is the session start; the ids do not
\* decrease, a tick at the session start is the first tick of its bar, and
\* no bar holds more than trades_per_bar ticks.
C25_TradeBarIds ==
    (/\ bar_pc = "built"
     /\ bar_kind = "trade"
     /\ bar_cfg.NEW_BAR_AT_SESSION_START) =>
        /\ Len(bar_ids) = Len(SessionTicks)
        /\ \A i \in 1..Len(bar_ids) :
              /\ bar_ids[i]
                    = ((i - 1) \div bar_size)
                      + Cardinality({k \in 1..i : SessionTicks[k].datetime
                                                    = bar_cfg.SESSION_START})
              /\ \A k \in 1..(i - 1) : bar_ids[k] <= bar_ids[i]
              /\ SessionTicks[i].datetime = bar_cfg.SESSION_START
                    => \A k \in 1..(i - 1) : bar_ids[k] < bar_ids[i]
              /\ Cardinality(TicksOfBar(bar_ids[i])) <= bar_size
        /\ {ohlcv[b].key : b \in 1..Len(ohlcv)}
              = {bar_ids[i] : i \in 1..Len(bar_ids)}
        /\ \A b \in 1..Len(ohlcv) :
              /\ b > 1 => ohlcv[b - 1].key < ohlcv[b].key
              /\ ohlcv[b].open
                    = SessionTicks[Min(TicksOfBar(ohlcv[b].key))].price
              /\ ohlcv[b].close
                    = SessionTicks[Max(TicksOfBar(ohlcv[b].key))].price

\* C25, its case: two trades per bar, two ticks at the session start and a
\* later one: the second tick opens a bar and the third one as well, the
\* count of the trades going on over the session start.
C25_Witness ==
    /\ bar_pc = "built"
    /\ bar_kind = "trade"
    /\ bar_cfg.NEW_BAR_AT_SESSION_START
    /\ bar_size = 2
    /\ Len(bar_ids) = 3
    /\ SessionTicks[2].datetime = bar_cfg.SESSION_START
    /\ SessionTicks[3].datetime > bar_cfg.SESSION_START
    /\ bar_ids[2] < bar_ids[3]
    /\ Len(ohlcv) = 3

-----------------------------------------------------------------------------
(***************************************************************************)
(* The claims about the stream merger.                                     *)
(***************************************************************************)
\* The timestamps of a sequence of records never go down.
NonDecreasing(recs) ==
    \A i \in 1..Len(recs), j \in 1..Len(recs) :
        i < j => recs[i].timestamp <= recs[j].timestamp

\* C16: the records that successive __next__ calls return after a
\* synchronization, and the records all() collects, have timestamps that
\* never go down.
C16_EmittedNonDecreasing ==
    /\ NonDecreasing(s_emitted)
    /\ (s_call.op = "all" /\ s_call.raised = "none") => NonDecreasing(s_call.res)

\* C16, its case: after a synchronization to a timestamp inside the data,
\* __next__ has returned records of both buffers, a tick between two depth
\* records.
C16_Witness ==
    /\ Len(s_emitted) >= 3
    /\ s_emitted[1].kind = "lob"
    /\ s_emitted[2].kind = "tas"
    /\ s_emitted[3].kind = "lob"
    /\ s_emitted[1].id > 1

\* C17 (as claimed): all() returns every record of the tick buffer and every
\* record of the depth buffer exactly once.
C17_Claim ==
    (s_call.op = "all" /\ s_call.raised = "none") =>
        /\ Len(s_call.res) = Len(s_tas_recs) + Len(s_lob_recs)
        /\ \A i \in 1..Len(s_tas_recs) :
              \E k \in 1..Len(s_call.res) : s_call.res[k] = s_tas_recs[i]
        /\ \A i \in 1..Len(s_lob_recs) :
              \E k \in 1..Len(s_call.res) : s_call.res[k] = s_lob_recs[i]

\* C18 (as claimed): when the next unread tick and the next unread depth
\* record have the same timestamp, __next__ returns the depth record.
C18_Claim ==
    (/\ s_call.op = "next"
     /\ s_call.lob_i < Len(s_lob_recs)
     /\ s_call.tas_i < Len(s_tas_recs)
     /\ s_lob_recs[s_call.lob_i + 1].timestamp
          = s_tas_recs[s_call.tas_i + 1].timestamp)
    => s_call.res = <<s_lob_recs[s_call.lob_i + 1]>>

\* C19 (as claimed): in the course of a drain, __next__ raises
\* StopIteration only when both cursors are at the end of their buffers;
\* with one buffer read to its end it goes on returning the records of the
\* other.
C19_Claim ==
    (/\ s_call.op = "next" /\ s_call.raised = "StopIteration"
     /\ s_call.prev = <<"next", "none">>)
    => /\ s_tas_i = Len(s_tas_recs)
       /\ s_lob_i = Len(s_lob_recs)

\* C20 (as claimed): after all() has returned, in the course of an
\* iteration, the tick cursor and the depth cursor are what they were before
\* the call.
C20_Claim ==
    (/\ s_call.op = "all" /\ s_call.raised = "none"
     /\ s_call.prev = <<"next", "none">>)
    => /\ s_tas_i = s_call.tas_i
       /\ s_lob_i = s_call.lob_i


\* cursor is the place in the ascending list recs of the first record with
\* a timestamp above ts, Len(recs) when there is none (cursors count from 0).
FirstAbove(recs, cursor, ts) ==
    /\ cursor \in 0..Len(recs)
    /\ \A i \in 1..cursor : recs[i].timestamp <= ts
    /\ cursor < Len(recs) => recs[cursor + 1].timestamp > ts

\* C26: after set_ts(targetTs) has returned, the depth cursor is at the first
\* buffered depth record with a timestamp above targetTs (the length of the
\* buffer when there is none), self.ts is the timestamp of the depth record
\* at the cursor (of the last one when the cursor is past the end), and the
\* tick cursor is at the first buffered tick with a timestamp above self.ts.
C26_SetTsCursors ==
    (s_call.op = "set_ts" /\ s_call.raised = "none") =>
        /\ FirstAbove(s_lob_recs, s_lob_i, s_call.arg)
        /\ s_ts = IF s_lob_i < Len(s_lob_recs)
                    THEN s_lob_recs[s_lob_i + 1].timestamp
                    ELSE s_lob_recs[Len(s_lob_recs)].timestamp
        /\ FirstAbove(s_tas_recs, s_tas_i, s_ts)

\* C26, its case: a target with depth records at or below it and above it,
\* and a tick buffer with ticks at or below the new clock and above it.
C26_Witness ==
    /\ s_call.op = "set_ts" /\ s_call.raised = "none"
    /\ s_lob_i > 0 /\ s_lob_i < Len(s_lob_recs)
    /\ s_lob_recs[s_lob_i].timestamp = s_call.arg
    /\ s_tas_i > 0 /\ s_tas_i < Len(s_tas_recs)
    /\ s_tas_recs[s_tas_i].timestamp = s_ts

\* buf holds the first records of the file, in file order, each of them once.
PrefixOf(buf, file) ==
    /\ Len(buf) <= Len(file)
    /\ \A i \in 1..Len(buf) : buf[i] = file[i]
    /\ \A i, j \in 1..Len(buf) : i # j => buf[i].id # buf[j].id

\* C30: after any sequence of set_ts, __iter__, __next__ and all() calls on
\* two files of whole records with a depth record, the files growing by whole
\* records between the calls, each buffer holds the first records of its
\* file in file order, none of them twice, and each cursor is between 0 and
\* the length of its buffer.
C30_BuffersArePrefixes ==
    Len(s_lob_file) >= 1 =>
        /\ PrefixOf(s_tas_recs, s_tas_file)
        /\ PrefixOf(s_lob_recs, s_lob_file)
        /\ s_tas_i \in 0..Len(s_tas_recs)
        /\ s_lob_i \in 0..Len(s_lob_recs)

\* C30, its case: __iter__ on buffers that held records already reads the
\* records both files have grown by since.
C30_Witness ==
    /\ s_call.op = "iter" /\ s_call.raised = "none"
    /\ s_call.read[1] >= 1 /\ Len(s_tas_recs) > s_call.read[1]
    /\ s_call.read[2] >= 1 /\ Len(s_lob_recs) > s_call.read[2]
    /\ s_lob_i > 0

=============================================================================
